---- MODULE Spec2Model ----
(***************************************************************************)
(* Model of the Android Docker provider (provider.py) and of the Android   *)
(* bridge server (android_bridge.py).                                      *)
(*                                                                         *)
(* Spec       : one AndroidDockerProvider driving one container engine;    *)
(*              run_vm is followed statement by statement, with the        *)
(*              outcome of every external command drawn from the exit      *)
(*              statuses the command can have.                             *)
(* SpecFaults : Spec, and a call of run_vm may be cancelled at a sleep,    *)
(*              a command may never return, subprocess.run may raise.      *)
(* SpecWait   : _wait_for_adb_ready by itself, with each timeout.          *)
(* SpecCancel : SpecWait with a caller that may cancel the wait.           *)
(* SpecBridge : one connection of the bridge server; handle_connection     *)
(*              receives messages and handle_message answers them.         *)
(* SpecLoop   : the event loop of the bridge server and its connections.   *)
(* SpecWs     : the FastAPI variant of the bridge (bridge_server.py).      *)
(* SpecSession: main of the two session scripts.                           *)
(*                                                                         *)
(* Time is counted in the units of time.time(); a sleep advances it by its *)
(* argument and an external command returns within the same unit.          *)
(* subprocess.run without check=True returns an exit status; in Spec the   *)
(* docker binary is always found and its output is text.                   *)
(***************************************************************************)
EXTENDS Integers, Sequences, FiniteSets, TLC

(***************************************************************************)
(* Bounds of the model.                                                    *)
(***************************************************************************)
\* environments the engine creates in one behaviour, beyond the initial one
MaxEnvs == 1
\* lines of an `adb devices` listing after its first line
MaxLines == 2
MaxRequests == 3

(***************************************************************************)
(* Program constants.                                                      *)
(***************************************************************************)
vnc_port == 6080
adb_port == 5555
api_port == 8000
console_port == 5554
vnc_alt_port == 5900
emulator_budget == 30
default_timeout == 120
poll_interval == 2
stabilize_delay == 5

Names == {"dev1"}
HostPorts == {vnc_port, adb_port, api_port, console_port, vnc_alt_port}

VARIABLES
    \* ---- host and container engine
    occupied,            \* host ports other processes held when this call probed them
    engine,              \* the environment of the name: NoEnv or a record
    nextId,              \* the identity the engine gives the next environment
    inside,              \* what is inside the environment: bridge file, deps, bridge processes
    \* ---- AndroidDockerProvider fields
    container_name,
    container_id,
    android_ready,
    \* ---- the run_vm call in progress
    pc,                  \* position in run_vm and its callees
    path,                \* branch of run_vm taken: "reuse", "restart", "create"
    existing_vm,         \* run_vm's local existing_vm
    elapsed,             \* time.time() - start_time in _wait_for_adb_ready (0 outside it)
    timeout,             \* _wait_for_adb_ready's timeout argument
    waitResult,          \* return value of _wait_for_adb_ready: "none", "ready", "timed_out"
    lastObs,             \* what the last `adb devices` probe of the wait showed
    waited,              \* what the wait of this call met: emulator process, boot query,
                         \* environment removed meanwhile, cancellation by the caller
    prov,                \* what _install_computer_server met in this call: probe, script,
                         \* exit statuses of the dependency commands, launch
    cmds,                \* docker commands issued by this call outside the polling loops, in order
    runArgs,             \* the -p arguments of the creation command of this call
    exit,                \* exit status and stderr of this call's docker run or docker start
    result,              \* what run_vm returned
    \* ---- the bridge server
    conn,                \* each connection: "open" or "closed"
    last,                \* the request completed last, when none was taken since:
                         \* connection, message, adb outcome, whether the peer was
                         \* gone at the send, commands run, responses sent, whether
                         \* an exception left handle_message
    serve,               \* the event loop of the bridge server: per connection the
                         \* requests received, the requests answered, the request
                         \* whose command is running, the one whose response is
                         \* being sent and the requests lost when it closed; the
                         \* request taken last while its send is under way
    \* ---- a session script (android_agent_websocket.py, test_android_websocket.py)
    session              \* the script, its position, what a stage threw, what is on its
                         \* way out after the except clauses, the environment,
                         \* what computer.stop() did, the fallback commands and their
                         \* exit statuses, what left main

engineVars == <<occupied, engine, nextId, inside>>
fieldVars == <<container_name, container_id, android_ready>>
callVars == <<pc, path, existing_vm, elapsed, timeout, waitResult, lastObs, waited, prov,
              cmds, runArgs, exit, result>>
providerVars == <<engineVars, fieldVars, callVars>>
bridgeVars == <<conn, last, serve>>

NoEnv == [status |-> "not_found"]
NoResult == [status |-> "none"]
NoVm == [status |-> "none"]
NoExit == [cmd |-> "none", rc |-> 0, stderr |-> ""]
NoInside == [file |-> FALSE, deps |-> FALSE, procs |-> 0]
NoWaited == [emu |-> "none", boot |-> "none", gone |-> FALSE, cancelled |-> FALSE]
NoProv == [probe |-> "none", provisioned |-> FALSE, script |-> "none", deps |-> <<>>,
           kill |-> "none", launch |-> "none"]

(***************************************************************************)
(* The container engine, as run_vm uses it.                                *)
(***************************************************************************)
\* DockerProvider.get_vm: the record of the named environment
get_vm(name) ==
    IF engine.status = "not_found"
    THEN [name |-> name, status |-> "not_found"]
    ELSE [name |-> name, status |-> engine.status, id |-> engine.id, ports |-> engine.ports]

\* host ports a list of -p arguments binds
HostPortsOf(args) == {args[i][1] : i \in DOMAIN args}

\* exit status and stderr of `docker run` with these -p arguments
DockerRunOutcomes(args, occ) ==
    IF engine.status # "not_found"
    THEN {[rc |-> 125, stderr |-> "name is already in use"]}
    ELSE IF HostPortsOf(args) \cap occ # {}
    THEN {[rc |-> 125, stderr |-> "port is already allocated"]}
    ELSE {[rc |-> 0, stderr |-> ""], [rc |-> 125, stderr |-> "no such image"]}

(***************************************************************************)
(* run_vm: port probing and the creation command (provider.py 77-129).     *)
(***************************************************************************)
\* occ: the host ports on which bind() fails
is_port_free(occ, port) == port \notin occ

\* a probe result that is not acted upon
MapIfFree_always(occ, host, cport) == << <<host, cport>> >>

MapIfFree(occ, host, cport) ==
    IF is_port_free(occ, host) THEN << <<host, cport>> >> ELSE <<>>

\* the -p arguments of the creation command, in the order they are appended
PortArgs(occ) ==
    MapIfFree(occ, vnc_port, 6080) \o MapIfFree(occ, adb_port, 5555)
        \o << <<api_port, 8000>> >>
        \o MapIfFree(occ, console_port, 5554) \o MapIfFree(occ, vnc_alt_port, 5900)

\* the exception run_vm catches, and the record it returns for it (154-162)
Exc(type, msg, stderr) == [type |-> type, msg |-> msg, stderr |-> stderr]

ErrorResult(name, e) ==
    [name |-> name, status |-> "error",
     error |-> <<"Error running Android VM", name, e>>, provider |-> "android"]

(***************************************************************************)
(* _wait_for_adb_ready: parsing of the `adb devices` listing (193-214).    *)
(* A listing is the exit status and the lines of stdout after strip() and  *)
(* split('\n'), each line by its kind:                                     *)
(*   "header"        List of devices attached                              *)
(*   "device", "offline", "unauthorized"    <serial> TAB <status>          *)
(*   "text"          a line without a tab (blank, daemon chatter)          *)
(*   "multitab"      a line with more than one tab                         *)
(***************************************************************************)
DeviceKinds == {"device", "offline", "unauthorized"}
LineKinds == DeviceKinds \cup {"text", "multitab"}
FirstKinds == {"header", "device"}

SeqsUpTo(S, n) == UNION {[1..k -> S] : k \in 0..n}

Listings ==
    {[rc |-> 1, lines |-> <<>>], [rc |-> 0, lines |-> <<>>]}
    \cup {[rc |-> 0, lines |-> <<f>> \o rest] :
             f \in FirstKinds, rest \in SeqsUpTo(LineKinds, MaxLines)}

\* a scan that gives up at the first device that is not ready
RECURSIVE ScanLines_first_device(_, _)
ScanLines_first_device(lines, i) ==
    IF i > Len(lines) THEN "retry"
    ELSE IF lines[i] = "text" THEN ScanLines_first_device(lines, i + 1)
    ELSE IF lines[i] = "multitab" THEN "exception"
    ELSE IF lines[i] = "device" THEN "ready"
    ELSE "retry"

\* the for loop over lines[1:], from line i on: "ready", "retry" or "exception"
RECURSIVE ScanLines(_, _)
ScanLines(lines, i) ==
    IF i > Len(lines) THEN "retry"
    ELSE IF lines[i] = "text" THEN ScanLines(lines, i + 1)
    ELSE IF lines[i] = "multitab" THEN "exception"
    ELSE IF lines[i] = "device" THEN "ready"
    ELSE ScanLines(lines, i + 1)

ParseListing(out) ==
    IF out.rc # 0 THEN "retry"
    ELSE IF Len(out.lines) > 1 THEN ScanLines(out.lines, 2)
    ELSE "retry"

\* what a listing shows, independently of how the code reads it
ReadyCount(lines) == Cardinality({i \in 2..Len(lines) : lines[i] = "device"})
DeviceCount(lines) == Cardinality({i \in 2..Len(lines) : lines[i] \in DeviceKinds})
WellFormed(out) ==
    /\ out.rc = 0
    /\ Len(out.lines) >= 1
    /\ out.lines[1] = "header"
    /\ \A i \in 2..Len(out.lines) : out.lines[i] # "multitab"

\* "no_device": the probe failed, or listed nothing usable; "not_ready": devices,
\* none of them ready; "ready_single", "ready_multi": one ready device alone, or
\* a ready device among several
Classify(out) ==
    IF ~WellFormed(out) THEN "no_device"
    ELSE IF DeviceCount(out.lines) = 0 THEN "no_device"
    ELSE IF ReadyCount(out.lines) = 0 THEN "not_ready"
    ELSE IF DeviceCount(out.lines) = 1 THEN "ready_single"
    ELSE "ready_multi"

ReadyObs == {"ready_single", "ready_multi"}

(***************************************************************************)
(* Initial state: a provider just constructed (provider.py 27-53) and an   *)
(* engine in which the environment is absent, running, stopped or paused.  *)
(***************************************************************************)
AllPorts ==
    << <<vnc_port, 6080>>, <<adb_port, 5555>>, <<api_port, 8000>>,
       <<console_port, 5554>>, <<vnc_alt_port, 5900>> >>

ProviderInit ==
    /\ occupied = {}
    /\ engine \in {NoEnv} \cup
          {[status |-> s, id |-> 0, ports |-> AllPorts] : s \in {"running", "stopped", "paused"}}
    /\ nextId = 1
    /\ inside = NoInside
    /\ container_name = "none"
    /\ container_id = -1
    /\ android_ready = FALSE
    /\ pc = "idle"
    /\ path = "none"
    /\ existing_vm = NoVm
    /\ elapsed = 0
    /\ timeout = default_timeout
    /\ waitResult = "none"
    /\ lastObs = "none"
    /\ waited = NoWaited
    /\ prov = NoProv
    /\ cmds = <<>>
    /\ runArgs = <<>>
    /\ exit = NoExit
    /\ result = NoResult

(***************************************************************************)
(* run_vm, lines 59-76: look the name up and branch.                       *)
(***************************************************************************)
\* _setup_android_environment entered: _wait_for_adb_ready starts its clock
EnterSetup ==
    /\ elapsed' = 0
    /\ timeout' = default_timeout
    /\ waitResult' = "none"
    /\ lastObs' = "none"
    /\ waited' = NoWaited
    /\ prov' = NoProv

\* a run_vm that recreates a running environment
Branch_recreate_running(status) ==
    IF status \in {"stopped", "paused"} THEN "restart" ELSE "create"

\* a run_vm that recreates a stopped environment
Branch_recreate_stopped(status) ==
    IF status = "running" THEN "reuse" ELSE "create"

\* lines 63, 68, 77: the branch taken for a status
Branch(status) ==
    IF status = "running" THEN "reuse"
    ELSE IF status \in {"stopped", "paused"} THEN "restart"
    ELSE "create"

run_vm(name) ==
    /\ pc = "idle"
    /\ existing_vm' = get_vm(name)
    /\ cmds' = <<>>
    /\ runArgs' = <<>>
    /\ exit' = NoExit
    /\ result' = NoResult
    /\ path' = Branch(existing_vm'.status)
    /\ IF path' = "reuse"
       THEN container_name' = name /\ pc' = "wait_emulator"
       ELSE container_name' = container_name /\ pc' = path'
    /\ EnterSetup
    /\ occupied' = {}
    /\ UNCHANGED <<engine, nextId, inside, container_id, android_ready>>
    /\ UNCHANGED <<bridgeVars, session>>

\* lines 70-73: docker start with check=True, then _wait_for_container_ready
RestartExisting(name) ==
    /\ pc = "restart"
    /\ cmds' = Append(cmds, "start")
    /\ \E rc \in {0, 1} :
          /\ exit' = [cmd |-> "start", rc |-> rc, stderr |-> ""]
          /\ IF rc = 0
             THEN /\ engine' = [engine EXCEPT !.status = "running"]
                  /\ inside' = [inside EXCEPT !.procs = 0]
                  /\ container_name' = name
                  /\ pc' = "wait_container"
                  /\ result' = result
             ELSE /\ result' = ErrorResult(name, Exc("CalledProcessError", "docker start", ""))
                  /\ pc' = "idle"
                  /\ UNCHANGED <<engine, inside, container_name>>
    /\ UNCHANGED <<occupied, nextId, container_id, android_ready, path, existing_vm,
                   elapsed, timeout, waitResult, lastObs, waited, prov, runArgs>>
    /\ UNCHANGED <<bridgeVars, session>>

\* lines 77-145: probe the ports, build and run the creation command
\* a run_vm that does not look at the exit status of docker run
RunFailed_unchecked(out) == FALSE

\* line 135
RunFailed(out) == out.rc # 0

CreateEnvironment(name) ==
    /\ pc = "create"
    /\ cmds' = Append(cmds, "run")
    /\ \E occ \in SUBSET HostPorts :
          /\ occupied' = occ
          /\ runArgs' = PortArgs(occ)
          /\ \E out \in DockerRunOutcomes(PortArgs(occ), occ) :
                /\ exit' = [cmd |-> "run", rc |-> out.rc, stderr |-> out.stderr]
                /\ IF RunFailed(out)
                   THEN /\ result' = ErrorResult(name, Exc("RuntimeError", "Failed to start container", out.stderr))
                        /\ pc' = "idle"
                        /\ UNCHANGED <<engine, nextId, inside, container_name, container_id>>
                   ELSE /\ engine' = IF out.rc = 0
                                     THEN [status |-> "running", id |-> nextId, ports |-> PortArgs(occ)]
                                     ELSE engine
                        /\ nextId' = IF out.rc = 0 THEN nextId + 1 ELSE nextId
                        /\ inside' = IF out.rc = 0 THEN NoInside ELSE inside
                        /\ container_id' = nextId
                        /\ container_name' = name
                        /\ pc' = "wait_container"
                        /\ result' = result
    /\ UNCHANGED <<android_ready, path, existing_vm, elapsed, timeout, waitResult, lastObs,
                   waited, prov>>
    /\ UNCHANGED <<bridgeVars, session>>

\* lines 73 and 145: DockerProvider._wait_for_container_ready, whose result is unused
WaitContainerReady ==
    /\ pc = "wait_container"
    /\ pc' = "wait_emulator"
    /\ UNCHANGED <<engineVars, fieldVars, path, existing_vm, elapsed, timeout, waitResult,
                   lastObs, waited, prov, cmds, runArgs, exit, result>>
    /\ UNCHANGED <<bridgeVars, session>>

(***************************************************************************)
(* _wait_for_adb_ready, lines 174-227.                                     *)
(***************************************************************************)
\* a wait that gives up when the emulator process never shows
AfterEmulatorBudget_gives_up == "provision"

\* lines 179 and 187: the emulator-process loop ends, the transport loop follows
AfterEmulatorBudget == "wait_adb"

\* lines 179-185: one turn of the emulator-process loop
WaitEmulator ==
    /\ pc = "wait_emulator"
    /\ IF elapsed < emulator_budget
       THEN \E rc \in {0, 1}, seen \in BOOLEAN :
               IF rc = 0 /\ seen
               THEN /\ pc' = "wait_adb"
                    /\ elapsed' = elapsed
                    /\ waited' = [waited EXCEPT !.emu = "seen"]
               ELSE /\ pc' = pc
                    /\ elapsed' = elapsed + poll_interval
                    /\ waited' = waited
       ELSE /\ pc' = AfterEmulatorBudget
            /\ elapsed' = elapsed
            /\ waited' = [waited EXCEPT !.emu = "unseen"]
    /\ UNCHANGED <<engineVars, fieldVars, path, existing_vm, timeout, waitResult,
                   lastObs, prov, cmds, runArgs, exit, result>>
    /\ UNCHANGED <<bridgeVars, session>>

\* every listing by what it shows and what lines 193-214 make of it
Probes == {[shows |-> Classify(out), parsed |-> ParseListing(out)] : out \in Listings}

\* docker exec in an environment that is gone fails: "No such container"
GoneProbe == [shows |-> "env_gone", parsed |-> ParseListing([rc |-> 1, lines |-> <<>>])]

ProbesOf(env) == IF env.status = "running" THEN Probes ELSE {GoneProbe}

\* a transport loop with a budget of its own, after the emulator phase
WithinBudget_after_emulator(e, t) == e < t + emulator_budget

\* line 188: while time.time() - start_time < timeout, start_time being taken
\* at the entry of the wait (line 176)
WithinBudget(e, t) == e < t

\* lines 188-227: one turn of the transport loop, or its exit
WaitAdb ==
    /\ pc = "wait_adb"
    /\ IF WithinBudget(elapsed, timeout)
       THEN \E probe \in ProbesOf(engine) :
               /\ lastObs' = probe.shows
               /\ IF probe.parsed = "ready"
                  THEN pc' = "stabilize" /\ elapsed' = elapsed
                  ELSE pc' = pc /\ elapsed' = elapsed + poll_interval
               /\ waitResult' = waitResult
       ELSE /\ waitResult' = "timed_out"
            /\ pc' = "provision"
            /\ elapsed' = 0
            /\ lastObs' = lastObs
    /\ UNCHANGED <<engineVars, fieldVars, path, existing_vm, timeout, waited, prov, cmds,
                   runArgs, exit, result>>
    /\ UNCHANGED <<bridgeVars, session>>

\* lines 207-210: what getprop sys.boot_completed answered
BootKind(rc, completed) ==
    IF rc # 0 THEN "failed" ELSE IF completed THEN "completed" ELSE "not_completed"

\* a wait that goes back to polling until the boot has completed
AfterBootCheck_requires_boot(rc, completed) ==
    IF rc = 0 /\ completed THEN "ready" ELSE "retry"

\* lines 209-212: the answer is logged, return True follows in every case
AfterBootCheck(rc, completed) == "ready"

\* lines 204-212: the stabilization sleep and the discarded boot check
Stabilize ==
    /\ pc = "stabilize"
    /\ \E rc \in {0, 1}, completed \in BOOLEAN :
          /\ waited' = [waited EXCEPT !.boot = BootKind(rc, completed)]
          /\ IF AfterBootCheck(rc, completed) = "ready"
             THEN /\ waitResult' = "ready"
                  /\ pc' = "provision"
                  /\ elapsed' = 0
             ELSE /\ waitResult' = waitResult
                  /\ pc' = "wait_adb"
                  /\ elapsed' = elapsed + stabilize_delay
    /\ UNCHANGED <<engineVars, fieldVars, path, existing_vm, timeout, lastObs, prov, cmds,
                   runArgs, exit, result>>
    /\ UNCHANGED <<bridgeVars, session>>

(***************************************************************************)
(* _install_computer_server, lines 229-315.                                *)
(***************************************************************************)
waitVars == <<elapsed, timeout, waitResult, lastObs, waited>>

\* a provisioning that goes on whatever the probe says
AfterProbe_ignored(rc) == "copy"

\* lines 235-239: return False when the probe fails
AfterProbe(rc) == IF rc = 0 THEN "copy" ELSE "finish"

\* docker exec succeeds only in a running environment
ExecCodes(env) == IF env.status = "running" THEN {0, 1} ELSE {1}

\* lines 233-239: the toolchain probe
ProvisionProbe ==
    /\ pc = "provision"
    /\ cmds' = Append(cmds, "adb_devices")
    /\ \E rc \in ExecCodes(engine) :
          /\ pc' = AfterProbe(rc)
          /\ prov' = [prov EXCEPT !.probe = IF rc = 0 THEN "ok" ELSE "failed",
                                   !.provisioned = inside.file /\ inside.deps]
    /\ UNCHANGED <<engineVars, fieldVars, path, existing_vm, waitVars, runArgs, exit, result>>
    /\ UNCHANGED <<bridgeVars, session>>

\* lines 242-247 and 306-310: copy the bridge script in, with check=True
ProvisionCopy ==
    /\ pc = "copy"
    /\ \E exists \in BOOLEAN, rc \in {0, 1} :
          IF ~exists
          THEN /\ pc' = "direct_mode"
               /\ prov' = [prov EXCEPT !.script = "missing"]
               /\ UNCHANGED <<cmds, inside>>
          ELSE /\ cmds' = Append(cmds, "cp")
               /\ IF rc = 0
                  THEN /\ pc' = "install_deps"
                       /\ inside' = [inside EXCEPT !.file = TRUE]
                       /\ prov' = [prov EXCEPT !.script = "copied"]
                  ELSE /\ pc' = "direct_mode"
                       /\ inside' = inside
                       /\ prov' = [prov EXCEPT !.script = "copy_failed"]
    /\ UNCHANGED <<occupied, engine, nextId, fieldVars, path, existing_vm, waitVars, runArgs, exit, result>>
    /\ UNCHANGED <<bridgeVars, session>>

\* lines 251-273: the commands the dependency installation runs, given the exit
\* status each strategy would have
Strategies == <<"pip3_break_system_packages", "pip3", "pip_break_system_packages", "apt_get">>

\* a dependency installation that runs every strategy whatever the one before did
RECURSIVE DepsCommands_all(_, _)
DepsCommands_all(rcs, i) ==
    IF i > Len(Strategies) THEN <<>>
    ELSE IF i = 4
         THEN <<"apt_get_update", "apt_get_install">>
         ELSE <<Strategies[i]>> \o DepsCommands_all(rcs, i + 1)

RECURSIVE DepsCommands(_, _)
DepsCommands(rcs, i) ==
    IF i > Len(Strategies) THEN <<>>
    ELSE IF i = 4
         THEN <<"apt_get_update", "apt_get_install">>
         ELSE IF rcs[i] = 0 THEN <<Strategies[i]>>
              ELSE <<Strategies[i]>> \o DepsCommands(rcs, i + 1)

DepsInstalled(rcs) == \E i \in 1..Len(Strategies) : rcs[i] = 0 /\ \A j \in 1..(i - 1) : rcs[j] # 0

\* the exit statuses of the strategies that were run
StrategiesRun(run) ==
    IF run # <<>> /\ run[Len(run)] = "apt_get_install" THEN Len(run) - 1 ELSE Len(run)

DepsExits(rcs) == SubSeq(rcs, 1, StrategiesRun(DepsCommands(rcs, 1)))

ProvisionDeps ==
    /\ pc = "install_deps"
    /\ \E rcs \in [1..Len(Strategies) -> {0, 1}] :
          /\ cmds' = cmds \o DepsCommands(rcs, 1)
          /\ inside' = [inside EXCEPT !.deps = inside.deps \/ DepsInstalled(rcs)]
          /\ prov' = [prov EXCEPT !.deps = DepsExits(rcs)]
    /\ pc' = "kill_old"
    /\ UNCHANGED <<occupied, engine, nextId, fieldVars, path, existing_vm, waitVars, runArgs, exit, result>>
    /\ UNCHANGED <<bridgeVars, session>>

\* a provisioning that launches the bridge without stopping the old one
ProvisionKill_skipped ==
    /\ pc = "kill_old"
    /\ pc' = "launch"
    /\ UNCHANGED <<engineVars, fieldVars, path, existing_vm, waitVars, prov, cmds, runArgs,
                   exit, result>>
    /\ UNCHANGED <<bridgeVars, session>>

\* lines 275-277: pkill -f computer_server.py, exit status unused
ProvisionKill ==
    /\ pc = "kill_old"
    /\ cmds' = Append(cmds, "pkill")
    /\ prov' = [prov EXCEPT !.kill = IF inside.procs > 0 THEN "killed" ELSE "no_match"]
    /\ inside' = [inside EXCEPT !.procs = 0]
    /\ pc' = "launch"
    /\ UNCHANGED <<occupied, engine, nextId, fieldVars, path, existing_vm, waitVars, runArgs, exit, result>>
    /\ UNCHANGED <<bridgeVars, session>>

\* lines 279-305: docker exec -d python3 /tmp/computer_server.py; the detached
\* process stays up only with the script and its dependency in place
Listening(in, stays) ==
    IF stays /\ in.file /\ in.deps /\ in.procs = 0 THEN 1 ELSE in.procs

ProvisionLaunch ==
    /\ pc = "launch"
    /\ cmds' = Append(cmds, "launch")
    /\ \E rc \in {0, 1}, stays \in BOOLEAN :
          IF rc = 0
          THEN /\ pc' = "verify"
               /\ inside' = [inside EXCEPT !.procs = Listening(inside, stays)]
               /\ prov' = [prov EXCEPT !.launch = "ok"]
          ELSE /\ pc' = "direct_mode"
               /\ inside' = inside
               /\ prov' = [prov EXCEPT !.launch = "failed"]
    /\ UNCHANGED <<occupied, engine, nextId, fieldVars, path, existing_vm, waitVars, runArgs, exit, result>>
    /\ UNCHANGED <<bridgeVars, session>>

\* lines 290-303: the liveness check
ProvisionVerify ==
    /\ pc = "verify"
    /\ cmds' = IF inside.procs > 0 THEN Append(cmds, "ps") ELSE cmds \o <<"ps", "cat_log">>
    /\ pc' = "finish"
    /\ UNCHANGED <<engineVars, fieldVars, path, existing_vm, waitVars, prov, runArgs, exit, result>>
    /\ UNCHANGED <<bridgeVars, session>>

\* lines 314-315
ProvisionDirectMode ==
    /\ pc = "direct_mode"
    /\ pc' = "finish"
    /\ UNCHANGED <<engineVars, fieldVars, path, existing_vm, waitVars, prov, cmds, runArgs,
                   exit, result>>
    /\ UNCHANGED <<bridgeVars, session>>

(***************************************************************************)
(* _setup_android_environment lines 171-172, then run_vm's return          *)
(* (lines 67, 75, 149-152).                                                *)
(***************************************************************************)
\* vm_info["container_id"] = container_id[:12]
WithContainerId(vm) ==
    [k \in DOMAIN vm \cup {"container_id"} |->
        IF k = "container_id" THEN container_id ELSE vm[k]]

ReturnValue(name) ==
    IF path = "reuse" THEN existing_vm
    ELSE IF path = "restart" THEN get_vm(name)
    ELSE WithContainerId(get_vm(name))

\* a setup that sets the flag from what the wait returned
ReadyAfterSetup_from_wait(w) == w = "ready"

\* line 171: self._android_ready = True, whatever the wait returned
ReadyAfterSetup(w) == TRUE

FinishSetup(name) ==
    /\ pc = "finish"
    /\ android_ready' = ReadyAfterSetup(waitResult)
    /\ result' = ReturnValue(name)
    /\ pc' = "idle"
    /\ UNCHANGED <<engineVars, container_name, container_id, path, existing_vm, waitVars,
                   prov, cmds, runArgs, exit>>
    /\ UNCHANGED <<bridgeVars, session>>

(***************************************************************************)
(* What can happen to a call of run_vm from outside: the caller cancels    *)
(* the task while it sleeps in the wait, or an external command never      *)
(* completes.                                                              *)
(***************************************************************************)
\* an except clause that catches whatever is raised
Catches_all(exc) == TRUE

\* the exception classes outside Exception: BaseException itself and what
\* derives from it and not from Exception
BaseExceptions ==
    {"BaseException", "BaseExceptionGroup", "CancelledError", "GeneratorExit",
     "KeyboardInterrupt", "SystemExit"}

\* lines 154, 216 and 309: except Exception; the classes outside Exception,
\* asyncio.CancelledError among them, pass all three
Catches(exc) == exc \notin BaseExceptions

\* the run_vm coroutine left by an exception: nothing is returned
Raised(exc) == [status |-> "raised", exc |-> exc]

\* the steps of _wait_for_adb_ready, each with an await asyncio.sleep
\* (lines 185, 224, 205)
WaitPcs == {"wait_emulator", "wait_adb", "stabilize"}

\* the steps of _install_computer_server that begin with the end of an await
\* asyncio.sleep: the launch after the sleep of line 277, the liveness check
\* after that of line 290
ProvisionSleepPcs == {"launch", "verify"}

\* the task is cancelled while the call sleeps: CancelledError is raised at the
\* await.  The sleep of line 205 is inside the try of lines 189-217, those of
\* lines 277 and 290 inside the try of lines 241-312, those of lines 185 and
\* 224 in no inner try; run_vm's handler is at lines 154-162.  What left the
\* coroutine as an exception sets no flag and issues no command; the wait is
\* left, and its clock with it.
CancelWait ==
    /\ pc \in WaitPcs \cup ProvisionSleepPcs
    /\ waited' = IF pc \in WaitPcs THEN [waited EXCEPT !.cancelled = TRUE] ELSE waited
    /\ IF Catches("CancelledError") /\ pc = "stabilize"
       THEN /\ pc' = "wait_adb"
            /\ elapsed' = elapsed + stabilize_delay
            /\ result' = result
       ELSE IF Catches("CancelledError") /\ pc \in ProvisionSleepPcs
       THEN /\ pc' = "direct_mode"
            /\ elapsed' = elapsed
            /\ result' = result
       ELSE /\ pc' = "idle"
            /\ elapsed' = 0
            /\ result' = IF Catches("CancelledError")
                         THEN ErrorResult(container_name, Exc("CancelledError", "", ""))
                         ELSE Raised("CancelledError")
    /\ UNCHANGED <<engineVars, fieldVars, path, existing_vm, timeout, waitResult, lastObs,
                   prov, cmds, runArgs, exit>>
    /\ UNCHANGED <<bridgeVars, session>>

\* the steps that run an external command with subprocess.run: lines 71, 133,
\* 181, 191, 208, 234, 247, 252-267, 276, 283, 293
CommandPcs ==
    {"restart", "create", "wait_emulator", "wait_adb", "stabilize", "provision", "copy",
     "install_deps", "kill_old", "launch", "verify"}

\* the step at pc runs a command: the loops of lines 180 and 188 run theirs
\* only while their condition holds
RunsCommand(step) ==
    IF step = "wait_emulator" THEN elapsed < emulator_budget
    ELSE IF step = "wait_adb" THEN WithinBudget(elapsed, timeout)
    ELSE TRUE

\* the timeout= argument of those calls: none of them passes one
CommandTimeout(step) == "none"

\* the commands of the dependency installation (lines 252-267) in the order
\* they run when each strategy fails
DepsChain == DepsCommands([i \in 1..Len(Strategies) |-> 1], 1)

\* the exit statuses seen when the first k commands of the chain have failed
FailedDeps(k) == [i \in 1..(IF k > 3 THEN 3 ELSE k) |-> 1]

\* a command of the current step never completes: subprocess.run without a
\* timeout does not return, and the loop conditions of lines 180 and 188 are
\* not evaluated again.  The commands of the step before it have completed:
\* in the dependency installation the strategies that failed, in the
\* liveness check ps when cat (line 299) is the one that hangs.
CommandHangs ==
    /\ pc \in CommandPcs
    /\ RunsCommand(pc)
    /\ CommandTimeout(pc) = "none"
    /\ pc' = "blocked"
    /\ \E k \in 0..(Len(DepsChain) - 1), psRan \in BOOLEAN :
          /\ pc # "install_deps" => k = 0
          /\ psRan => pc = "verify" /\ inside.procs = 0
          /\ cmds' = IF psRan THEN Append(cmds, "ps") ELSE cmds \o SubSeq(DepsChain, 1, k)
          /\ prov' = IF k > 0 THEN [prov EXCEPT !.deps = FailedDeps(k)] ELSE prov
    /\ UNCHANGED <<engineVars, fieldVars, path, existing_vm, waitVars, runArgs, exit, result>>
    /\ UNCHANGED <<bridgeVars, session>>

\* what subprocess.run raises when the docker executable cannot be started:
\* not found, not executable, not a program (OSError, Exec format error)
OsErrors == {"FileNotFoundError", "PermissionError", "OSError"}

\* what subprocess.run(..., text=True) raises after the command has run, when
\* its output is not UTF-8; a ValueError, taken by except Exception
DecodeErrors == {"UnicodeDecodeError"}

\* the steps whose command passes text=True: all but docker cp (line 247) and
\* pkill (line 276); in the dependency installation all but apt-get update
\* (line 265)
TextPcs == CommandPcs \ {"copy", "kill_old"}

\* the command line a step was about to start
CommandOf(step) ==
    IF step = "restart" THEN "docker start"
    ELSE IF step = "create" THEN "docker run"
    ELSE "docker exec"

\* the steps whose subprocess.run no inner try encloses: lines 71 and 133 of
\* run_vm, line 181 of the emulator loop, line 234 before the try of
\* _install_computer_server
UnguardedPcs == {"restart", "create", "wait_emulator", "provision"}

\* subprocess.run raises instead of returning: an OSError before the command
\* is started (the command is not issued), or a decoding error after it has
\* run (it was issued and has done what it does; its exit status and output
\* are never looked at).
\*  - lines 71, 133, 181, 234: the exception reaches the handler of run_vm
\*    (lines 154-162), which logs it and returns the error record under the
\*    name of the call; container_name and _container_id are as they were;
\*  - line 191: caught at 216, the loop sleeps 2 s (224) and polls again;
\*  - line 208, after the sleep of 205: caught at 216, then as line 191;
\*  - lines 247-299: caught at 309, provisioning goes on in direct mode and
\*    the setup finishes as after any other provisioning.  In the dependency
\*    installation the k strategies before the raising command have run and
\*    failed; in the liveness check the raising command is ps, or cat after ps.
CommandRaises ==
    /\ pc \in CommandPcs
    /\ RunsCommand(pc)
    /\ \E type \in OsErrors \cup DecodeErrors :
          LET ran == type \in DecodeErrors IN
          /\ Catches(type)
          /\ ran => pc \in TextPcs
          /\ IF pc \in UnguardedPcs
             THEN /\ pc' = "idle"
                  /\ result' = ErrorResult(existing_vm.name, Exc(type, CommandOf(pc), ""))
                  /\ elapsed' = 0
             ELSE IF pc \in {"wait_adb", "stabilize"}
             THEN /\ pc' = "wait_adb"
                  /\ result' = result
                  /\ elapsed' = elapsed + poll_interval
                                  + (IF pc = "stabilize" THEN stabilize_delay ELSE 0)
             ELSE /\ pc' = "direct_mode"
                  /\ result' = result
                  /\ elapsed' = elapsed
          /\ IF ran /\ pc = "restart"
             THEN \E rc \in {0, 1} :
                     /\ cmds' = Append(cmds, "start")
                     /\ exit' = [cmd |-> "start", rc |-> rc, stderr |-> ""]
                     /\ engine' = IF rc = 0 THEN [engine EXCEPT !.status = "running"] ELSE engine
                     /\ inside' = IF rc = 0 THEN [inside EXCEPT !.procs = 0] ELSE inside
                     /\ UNCHANGED <<occupied, nextId, runArgs, prov>>
             ELSE IF ran /\ pc = "create"
             THEN \E occ \in SUBSET HostPorts :
                     \E out \in DockerRunOutcomes(PortArgs(occ), occ) :
                        /\ cmds' = Append(cmds, "run")
                        /\ occupied' = occ
                        /\ runArgs' = PortArgs(occ)
                        /\ exit' = [cmd |-> "run", rc |-> out.rc, stderr |-> out.stderr]
                        /\ engine' = IF out.rc = 0
                                     THEN [status |-> "running", id |-> nextId, ports |-> PortArgs(occ)]
                                     ELSE engine
                        /\ nextId' = IF out.rc = 0 THEN nextId + 1 ELSE nextId
                        /\ inside' = IF out.rc = 0 THEN NoInside ELSE inside
                        /\ prov' = prov
             ELSE IF pc = "install_deps"
             THEN \E k \in 0..(Len(DepsChain) - 1), installed \in BOOLEAN :
                     /\ ran => DepsChain[k + 1] # "apt_get_update"
                     /\ installed => ran
                     /\ cmds' = cmds \o SubSeq(DepsChain, 1, IF ran THEN k + 1 ELSE k)
                     /\ prov' = [prov EXCEPT !.deps = FailedDeps(k)]
                     /\ inside' = [inside EXCEPT !.deps = @ \/ installed]
                     /\ UNCHANGED <<occupied, engine, nextId, runArgs, exit>>
             ELSE IF pc = "verify"
             THEN \E psRan \in BOOLEAN :
                     /\ psRan => inside.procs = 0
                     /\ cmds' = cmds \o (IF psRan THEN <<"ps">> ELSE <<>>)
                                     \o (IF ~ran THEN <<>>
                                         ELSE IF psRan THEN <<"cat_log">> ELSE <<"ps">>)
                     /\ UNCHANGED <<engineVars, runArgs, exit, prov>>
             ELSE IF ran /\ pc = "launch"
             THEN \E rc \in {0, 1}, stays \in BOOLEAN :
                     /\ cmds' = Append(cmds, "launch")
                     /\ inside' = IF rc = 0 THEN [inside EXCEPT !.procs = Listening(inside, stays)]
                                  ELSE inside
                     /\ UNCHANGED <<occupied, engine, nextId, runArgs, exit, prov>>
             ELSE /\ cmds' = IF ran /\ pc = "provision" THEN Append(cmds, "adb_devices") ELSE cmds
                  /\ UNCHANGED <<engineVars, runArgs, exit, prov>>
    /\ UNCHANGED <<fieldVars, path, existing_vm, timeout, waitResult, lastObs, waited>>
    /\ UNCHANGED <<bridgeVars, session>>

(***************************************************************************)
(* What happens to the environment between two calls of run_vm: it is     *)
(* stopped, paused or removed (DockerProvider.stop_vm, the docker CLI).    *)
(***************************************************************************)
EnvironmentHalts ==
    /\ pc = "idle"
    /\ engine.status = "running"
    /\ \E s \in {"stopped", "paused"} : engine' = [engine EXCEPT !.status = s]
    /\ inside' = [inside EXCEPT !.procs = 0]
    /\ UNCHANGED <<occupied, nextId, fieldVars, callVars>>
    /\ UNCHANGED <<bridgeVars, session>>

EnvironmentRemoved ==
    /\ pc \in {"idle", "wait_adb"}
    /\ engine.status # "not_found"
    /\ nextId <= MaxEnvs
    /\ engine' = NoEnv
    /\ inside' = NoInside
    /\ waited' = IF pc = "wait_adb" THEN [waited EXCEPT !.gone = TRUE] ELSE waited
    /\ UNCHANGED <<occupied, nextId, fieldVars, pc, path, existing_vm, elapsed, timeout,
                   waitResult, lastObs, prov, cmds, runArgs, exit, result>>
    /\ UNCHANGED <<bridgeVars, session>>

(***************************************************************************)
(* android_bridge.py: JSON values.  A message is text that json.loads      *)
(* rejects ("garbage") or a JSON value, tagged with its Python type.       *)
(***************************************************************************)
Null == [t |-> "null"]
I(n) == [t |-> "int", v |-> n]
S(str) == [t |-> "str", v |-> str]
L(seq) == [t |-> "list", v |-> seq]
D(f) == [t |-> "dict", v |-> f]
Garbage == [t |-> "garbage"]
EmptyDict == D([k \in {} |-> Null])

\* bool(v)
Truthy(v) ==
    CASE v.t = "null" -> FALSE
      [] v.t = "int" -> v.v # 0
      [] v.t = "str" -> Len(v.v) > 0
      [] v.t = "list" -> Len(v.v) > 0
      [] v.t = "dict" -> DOMAIN v.v # {}

\* an or that prefers its second operand
Or_prefers_second(a, b) == IF Truthy(b) THEN b ELSE a

\* a or b
Or(a, b) == IF Truthy(a) THEN a ELSE b

\* d.get(k, default), for a dict d
Get(d, k, default) == IF k \in DOMAIN d.v THEN d.v[k] ELSE default

\* a value or the exception that computing it raised
Val(v) == [exc |-> FALSE, v |-> v]
Raise(type) == [exc |-> TRUE, type |-> type]

\* v[i], i counted from 0
Subscript(v, i) ==
    CASE v.t = "list" -> IF i < Len(v.v) THEN Val(v.v[i + 1]) ELSE Raise("IndexError")
      [] v.t = "str" -> IF i < Len(v.v) THEN Val(S(SubSeq(v.v, i + 1, i + 1))) ELSE Raise("IndexError")
      [] v.t = "dict" -> Raise("KeyError")
      [] OTHER -> Raise("TypeError")

\* str(v); the text of a list or a dict is not followed further
PyStr(v) ==
    CASE v.t = "int" -> ToString(v.v)
      [] v.t = "str" -> v.v
      [] v.t = "null" -> "None"
      [] v.t = "list" -> "[...]"
      [] v.t = "dict" -> "{...}"

\* s.replace(c, r) for a one-character c
RECURSIVE Replace(_, _, _)
Replace(str, c, r) ==
    IF Len(str) = 0 THEN ""
    ELSE (IF SubSeq(str, 1, 1) = c THEN r ELSE SubSeq(str, 1, 1))
            \o Replace(SubSeq(str, 2, Len(str)), c, r)

\* line 93: the escaping of the text to type
EscapeText(text) == Replace(Replace(Replace(text, " ", "%s"), "'", "\\'"), "\"", "\\\"")

(***************************************************************************)
(* provider.py, lines 403-431: the argument lists the direct methods hand  *)
(* to execute_adb_command, which puts docker exec <name> adb before them.  *)
(* Numbers and keycodes are JSON values, str() is applied to them.         *)
(***************************************************************************)
tap(x, y) == <<"shell", "input", "tap", PyStr(x), PyStr(y)>>

swipe(x1, y1, x2, y2, duration_ms) ==
    <<"shell", "input", "swipe", PyStr(x1), PyStr(y1), PyStr(x2), PyStr(y2), PyStr(duration_ms)>>

\* line 421: the bridge's three replacements, then & escaped
type_text(text) ==
    <<"shell", "input", "text",
      Replace(Replace(Replace(Replace(text, " ", "%s"), "'", "\\'"), "\"", "\\\""), "&", "\\&")>>

key_event(keycode) == <<"shell", "input", "keyevent", PyStr(keycode)>>

(***************************************************************************)
(* execute_adb, lines 40-54.  What running the adb command does is one of: *)
(* it cannot be run or exceeds the 10 s timeout ("raise"), or it exits     *)
(* with a status and a stdout, which is one of                             *)
(*   ""           nothing                                                  *)
(*   "PNG"        image bytes                                              *)
(*   the answers of wm size, well formed or not                            *)
(*   an error message of the input tool                                    *)
(***************************************************************************)
SizeLabels == {"Physical size", "Override size", "max"}

SizeText(label, w, h) == label \o ": " \o ToString(w) \o "x" \o ToString(h)

WellFormedSizes == {SizeText(l, w, h) : l \in SizeLabels, w \in {0, 1080}, h \in {7, 1920}}

SizeOutputs ==
    WellFormedSizes \cup
    {"", "Physical size: unknown", "error: max", "1080x1920\n", " 1080 x 1920 ",
     "Physical size: 1080x1920\nOverride size: 720x1280\n",
     "Physical size: 10x20x30", "Physical size: -5x10", "Physical size: 1080x",
     "Physical size:\f1080x1920", "Physical size: 1_0x2_0", "Physical size: 1__0x20",
     "Physical size: 10 x\t20", "Physical size: 10x20", "Physical size: 10x20",
     "Physical size: 10x20", "Physical size: 10x20", "Physical size: 10x20",
     "Physical size: ۱۰x২০", "Physical size: 1߀x꯲_0"}

InputOutputs == {"", "Error: Invalid arguments"}

Stdouts == {"", "PNG"} \cup SizeOutputs \cup InputOutputs

AdbOutcomes ==
    {[kind |-> "raise"]} \cup {[kind |-> "exit", rc |-> rc, out |-> o] : rc \in {0, 1}, o \in Stdouts}

(***************************************************************************)
(* Python's str operations used on the output of wm size.                  *)
(***************************************************************************)
\* sub in s
Contains(s, sub) ==
    \E i \in 1..(Len(s) - Len(sub) + 1) : SubSeq(s, i, i + Len(sub) - 1) = sub

\* s.split(c), for a one-character c
RECURSIVE Split(_, _)
Split(s, c) ==
    IF ~Contains(s, c) THEN <<s>>
    ELSE LET i == CHOOSE j \in 1..Len(s) :
                     SubSeq(s, j, j) = c /\ ~Contains(SubSeq(s, 1, j - 1), c)
         IN  <<SubSeq(s, 1, i - 1)>> \o Split(SubSeq(s, i + 1, Len(s)), c)

\* the whitespace str.strip() removes: the ASCII ones (space, \t, \n, \v, \f,
\* \r, \x1c-\x1f), \x85, \xa0 and \u1680, the last eight written as the
\* characters themselves.  Python also takes \u2000-\u200a, \u2028, \u2029,
\* \u202f, \u205f and \u3000, which a string of the model cannot hold.
IsSpace(ch) ==
    ch \in {" ", "\n", "\t", "\r", "\f", "", "", "", "", "", "", " ", " "}

\* s.strip()
RECURSIVE Strip(_)
Strip(s) ==
    IF Len(s) = 0 THEN s
    ELSE IF IsSpace(SubSeq(s, 1, 1)) THEN Strip(SubSeq(s, 2, Len(s)))
    ELSE IF IsSpace(SubSeq(s, Len(s), Len(s))) THEN Strip(SubSeq(s, 1, Len(s) - 1))
    ELSE s

\* the whitespace int() drops around a number: that of str.strip() without
\* the separators \x1c-\x1f (of the ASCII characters int() takes only
\* space, \t, \n, \v, \f and \r)
IsIntSpace(ch) == IsSpace(ch) /\ ch \notin {"", "", "", ""}

RECURSIVE IntStrip(_)
IntStrip(s) ==
    IF Len(s) = 0 THEN s
    ELSE IF IsIntSpace(SubSeq(s, 1, 1)) THEN IntStrip(SubSeq(s, 2, Len(s)))
    ELSE IF IsIntSpace(SubSeq(s, Len(s), Len(s))) THEN IntStrip(SubSeq(s, 1, Len(s) - 1))
    ELSE s

\* the decimal digits int() takes, each script from its zero to its nine: the
\* ASCII digits and those of the other scripts a string of the model can hold
\* (Unicode has more, the Arabic-Indic and the fullwidth digits among them)
Digits ==
    <<"0123456789",
      "۰۱۲۳۴۵۶۷۸۹",
      "߀߁߂߃߄߅߆߇߈߉",
      "০১২৩৪৫৬৭৮৯",
      "૦૧૨૩૪૫૬૭૮૯",
      "௦௧௨௩௪௫௬௭௮௯",
      "೦೧೨೩೪೫೬೭೮೯",
      "෦෧෨෩෪෫෬෭෮෯",
      "໐໑໒໓໔໕໖໗໘໙",
      "႐႑႒႓႔႕႖႗႘႙",
      "០១២៣៤៥៦៧៨៩",
      "᧐᧑᧒᧓᧔᧕᧖᧗᧘᧙",
      "᪀᪁᪂᪃᪄᪅᪆᪇᪈᪉",
      "᪐᪑᪒᪓᪔᪕᪖᪗᪘᪙",
      "᮰᮱᮲᮳᮴᮵᮶᮷᮸᮹",
      "꣐꣑꣒꣓꣔꣕꣖꣗꣘꣙",
      "꧐꧑꧒꧓꧔꧕꧖꧗꧘꧙",
      "꧰꧱꧲꧳꧴꧵꧶꧷꧸꧹",
      "꯰꯱꯲꯳꯴꯵꯶꯷꯸꯹">>

IsDigit(ch) == \E b \in DOMAIN Digits : \E i \in 1..10 : SubSeq(Digits[b], i, i) = ch

DigitValue(ch) ==
    (CHOOSE i \in 1..10 : \E b \in DOMAIN Digits : SubSeq(Digits[b], i, i) = ch) - 1

RECURSIVE DigitsValue(_)
DigitsValue(s) ==
    IF Len(s) = 0 THEN 0
    ELSE DigitsValue(SubSeq(s, 1, Len(s) - 1)) * 10 + DigitValue(SubSeq(s, Len(s), Len(s)))

AllDigits(s) == Len(s) > 0 /\ \A i \in 1..Len(s) : IsDigit(SubSeq(s, i, i))

\* the digits of an integer literal: decimal digits with single underscores
\* between them
Grouped(s) ==
    /\ Len(s) > 0
    /\ IsDigit(SubSeq(s, 1, 1)) /\ IsDigit(SubSeq(s, Len(s), Len(s)))
    /\ \A i \in 1..Len(s) : IsDigit(SubSeq(s, i, i)) \/ SubSeq(s, i, i) = "_"
    /\ ~Contains(s, "__")

\* int(s): the value, or ValueError.  Whitespace around the number is
\* dropped, a sign may come first, underscores may group the digits.
ParseInt(str) ==
    LET t == IntStrip(str)
        signed == Len(t) > 0 /\ SubSeq(t, 1, 1) \in {"+", "-"}
        body == IF signed THEN SubSeq(t, 2, Len(t)) ELSE t
        digits == Replace(body, "_", "")
    IN  IF ~Grouped(body) THEN [ok |-> FALSE]
        ELSE [ok |-> TRUE,
              v |-> IF signed /\ SubSeq(t, 1, 1) = "-" THEN 0 - DigitsValue(digits)
                    ELSE DigitsValue(digits)]

\* a size parsed from the first field of the output
LastField_first(parts) == parts[1]

\* line 133: [-1]
LastField(parts) == parts[Len(parts)]

\* lines 133-134: size_str = output.split(":")[-1].strip();
\* width, height = map(int, size_str.split("x"))
ParseSize(output) ==
    LET size_str == Strip(LastField(Split(output, ":")))
        parts == Split(size_str, "x")
    IN  IF Len(parts) < 2 THEN [ok |-> FALSE]
        ELSE IF ~ParseInt(parts[1]).ok \/ ~ParseInt(parts[2]).ok THEN [ok |-> FALSE]
        ELSE IF Len(parts) > 2 THEN [ok |-> FALSE]
        ELSE [ok |-> TRUE, width |-> ParseInt(parts[1]).v, height |-> ParseInt(parts[2]).v]

AdbPrefix == <<"adb", "-s", "emulator-5554">>

\* args: the JSON values or strings that make the command line; a value that is
\* not a str makes subprocess.run raise TypeError, caught like any other failure
execute_adb(args, how) ==
    IF \E i \in DOMAIN args : args[i].t # "str"
    THEN [success |-> FALSE, output |-> "exception", ran |-> <<>>]
    ELSE IF how.kind = "raise"
    THEN [success |-> FALSE, output |-> "exception", ran |-> <<AdbPrefix \o [i \in DOMAIN args |-> args[i].v]>>]
    ELSE [success |-> how.rc = 0, output |-> how.out,
          ran |-> <<AdbPrefix \o [i \in DOMAIN args |-> args[i].v]>>]

Shell(words) == [i \in DOMAIN words |-> S(words[i])]

(***************************************************************************)
(* handle_message, lines 56-163.  Each branch gives the response built,    *)
(* or the exception raised before one was built, and the adb commands run. *)
(***************************************************************************)
Built(resp, ran) == [exc |-> FALSE, resp |-> resp, ran |-> ran]
Threw(type, ran) == [exc |-> TRUE, type |-> type, ran |-> ran]

\* lines 66-79
DoScreenshot(how) ==
    LET r == execute_adb(Shell(<<"shell", "screencap", "-p">>), how) IN
    IF r.success /\ r.output # ""
    THEN Built([success |-> TRUE, action |-> S("screenshot"), image |-> "base64", format |-> "png"], r.ran)
    ELSE Built([success |-> FALSE, error |-> "Screenshot failed"], r.ran)

\* lines 84-85: params.get(k) or data.get(k, data.get("coordinate", [0, 0])[i])
Coordinate(data, params, k, i) ==
    IF params.t # "dict" THEN Raise("AttributeError")
    ELSE IF Truthy(Get(params, k, Null)) THEN Val(Get(params, k, Null))
    ELSE LET c == Subscript(Get(data, "coordinate", L(<<I(0), I(0)>>)), i) IN
         IF c.exc THEN c ELSE Val(Get(data, k, c.v))

\* lines 82-87
DoClick(data, params, how) ==
    LET x == Coordinate(data, params, "x", 0)
        y == Coordinate(data, params, "y", 1)
    IN  IF x.exc THEN Threw(x.type, <<>>)
        ELSE IF y.exc THEN Threw(y.type, <<>>)
        ELSE LET r == execute_adb(Shell(<<"shell", "input", "tap">>) \o <<S(PyStr(x.v)), S(PyStr(y.v))>>, how)
             IN  Built([success |-> r.success, action |-> S("click"), x |-> x.v, y |-> y.v], r.ran)

\* lines 90-95
DoType(data, how) ==
    LET text == Get(data, "text", S("")) IN
    IF text.t # "str" THEN Threw("AttributeError", <<>>)
    ELSE LET r == execute_adb(Shell(<<"shell", "input", "text">>) \o <<S(EscapeText(text.v))>>, how)
         IN  Built([success |-> r.success, action |-> S("type"), text |-> text], r.ran)

\* lines 101-109
KeyMap(key) ==
    CASE key = "Return" -> "66" [] key = "Enter" -> "66"
      [] key = "BackSpace" -> "67" [] key = "Delete" -> "67"
      [] key = "Tab" -> "61" [] key = "Escape" -> "111"
      [] key = "Home" -> "3" [] key = "Back" -> "4"
      [] OTHER -> key

\* lines 98-111
DoKey(data, how) ==
    LET key == Get(data, "key", S("")) IN
    IF key.t \in {"list", "dict"} THEN Threw("TypeError", <<>>)
    ELSE LET keycode == IF key.t = "str" THEN S(KeyMap(key.v)) ELSE key
             r == execute_adb(Shell(<<"shell", "input", "keyevent">>) \o <<keycode>>, how)
         IN  Built([success |-> r.success, action |-> S("key"), key |-> key], r.ran)

\* lines 114-125
DoSwipe(data, how) ==
    LET x1 == Get(data, "start_x", Get(data, "from_x", I(0)))
        y1 == Get(data, "start_y", Get(data, "from_y", I(0)))
        x2 == Get(data, "end_x", Get(data, "to_x", I(0)))
        y2 == Get(data, "end_y", Get(data, "to_y", I(0)))
        duration == Get(data, "duration", I(300))
        r == execute_adb(Shell(<<"shell", "input", "swipe">>)
                \o <<S(PyStr(x1)), S(PyStr(y1)), S(PyStr(x2)), S(PyStr(y2)), S(PyStr(duration))>>, how)
    IN  Built([success |-> r.success, action |-> S("swipe")], r.ran)

\* lines 128-142
DoScreenSize(how) ==
    LET r == execute_adb(Shell(<<"shell", "wm", "size">>), how) IN
    IF r.success /\ Contains(r.output, "x")
    THEN LET size == ParseSize(r.output) IN
         IF size.ok
         THEN Built([success |-> TRUE, size |-> [width |-> size.width, height |-> size.height]], r.ran)
         ELSE Threw("ValueError", r.ran)
    ELSE Built([success |-> FALSE, error |-> "Could not get screen size"], r.ran)

\* a version probe that asks the device first
DoVersion_asks_device ==
    Built([success |-> TRUE, version |-> "1.0.0", platform |-> "android"],
          <<AdbPrefix \o <<"shell", "getprop", "ro.build.version.release">> >>)

\* lines 145-150
DoVersion == Built([success |-> TRUE, version |-> "1.0.0", platform |-> "android"], <<>>)

\* an unknown action answered with an error
DoUnknown_rejects(action) == Built([success |-> FALSE, error |-> "Unknown action"], <<>>)

\* lines 153-155
DoUnknown(action) == Built([success |-> TRUE, action |-> action, status |-> "ok"], <<>>)

IsOneOf(action, names) == action.t = "str" /\ action.v \in names

\* lines 59-155: the try block up to the response
Dispatch(msg, how) ==
    IF msg.t = "garbage" THEN Threw("JSONDecodeError", <<>>)
    ELSE IF msg.t # "dict" THEN Threw("AttributeError", <<>>)
    ELSE LET action == Or(Or(Get(msg, "command", Null), Get(msg, "action", Null)), Get(msg, "type", Null))
             params == Get(msg, "params", EmptyDict)
         IN  IF IsOneOf(action, {"screenshot", "take_screenshot"}) THEN DoScreenshot(how)
             ELSE IF IsOneOf(action, {"click", "left_click", "tap"}) THEN DoClick(msg, params, how)
             ELSE IF IsOneOf(action, {"type", "type_text"}) THEN DoType(msg, how)
             ELSE IF IsOneOf(action, {"key"}) THEN DoKey(msg, how)
             ELSE IF IsOneOf(action, {"drag", "swipe"}) THEN DoSwipe(msg, how)
             ELSE IF IsOneOf(action, {"get_screen_size"}) THEN DoScreenSize(how)
             ELSE IF IsOneOf(action, {"version"}) THEN DoVersion
             ELSE DoUnknown(action)

\* lines 160-162
ErrorResponse(type) == [success |-> FALSE, error |-> type]

\* a handle_message without the handler of line 160
handle_message_no_except(msg, how, peerGone) ==
    LET d == Dispatch(msg, how) IN
    IF d.exc \/ peerGone
    THEN [ran |-> d.ran, sent |-> <<>>, escaped |-> TRUE]
    ELSE [ran |-> d.ran, sent |-> <<d.resp>>, escaped |-> FALSE]

\* handle_message as a whole: the commands run, the responses that reach the
\* peer, and whether an exception leaves the function.  With the peer gone the
\* send of line 158 raises, the handler of line 160 takes over, and its own send
\* raises out of the function.
handle_message(msg, how, peerGone) ==
    LET d == Dispatch(msg, how) IN
    IF d.exc
    THEN [ran |-> d.ran, sent |-> IF peerGone THEN <<>> ELSE <<ErrorResponse(d.type)>>,
          escaped |-> peerGone]
    ELSE IF peerGone
    THEN [ran |-> d.ran, sent |-> <<>>, escaped |-> TRUE]
    ELSE [ran |-> d.ran, sent |-> <<d.resp>>, escaped |-> FALSE]

(***************************************************************************)
(* handle_connection, lines 165-175, with handle_message run for each      *)
(* message received.  handle_message has no suspension point before its    *)
(* send: it runs in one step up to the call of websocket.send, where the   *)
(* coroutine gives way, and the completion of the send is a second step.   *)
(* The peer may be gone by then: both sends raise ConnectionClosed, which  *)
(* handle_connection catches.                                              *)
(***************************************************************************)
Conns == {"c1", "c2"}

Ids == {"command", "action", "type"}

Coords(x, y) == ("x" :> I(x)) @@ ("y" :> I(y))

TapBodies ==
    { [k \in {} |-> Null],
      Coords(1, 2),
      "params" :> D(Coords(1, 2)),
      "coordinate" :> L(<<I(1), I(2)>>),
      "coordinate" :> I(5),
      Coords(-1, 2),
      "params" :> S("p"),
      ("params" :> D(Coords(0, 0))) @@ Coords(3, 4) }

Bodies(a) ==
    CASE a = "tap" -> TapBodies
      [] a \in {"click", "left_click"} -> {Coords(1, 2)}
      [] a = "type" -> {"text" :> S("a b"), "text" :> I(5), [k \in {} |-> Null]}
      [] a = "type_text" -> {"text" :> S("it's"), "text" :> S("say \"hi\""), "text" :> S("a\\'b"),
                             "text" :> S("C:\\"), "text" :> S("a&b")}
      [] a = "key" -> {"key" :> S("Enter"), "key" :> S("A"), "key" :> I(3),
                       "key" :> L(<<>>), [k \in {} |-> Null]}
      [] a = "swipe" -> {[k \in {} |-> Null],
                         ("start_x" :> I(1)) @@ ("start_y" :> I(2)) @@ ("end_x" :> I(3))
                            @@ ("end_y" :> I(4)) @@ ("duration" :> I(100)),
                         ("from_x" :> I(1)) @@ ("from_y" :> I(2)) @@ ("to_x" :> I(3)) @@ ("to_y" :> I(4))}
      [] OTHER -> {[k \in {} |-> Null]}

KnownActions ==
    {"screenshot", "take_screenshot", "click", "left_click", "tap", "type", "type_text",
     "key", "drag", "swipe", "get_screen_size", "version"}
UnknownActions == {"frobnicate"}

\* the direct methods of the provider (provider.py 328-431) by name
DirectOnly == {"home", "open_app"}

\* requests that carry an identifier under several keys
SeveralIds ==
    { D(("command" :> S("version")) @@ ("action" :> S("tap")) @@ ("type" :> S("key"))),
      D(("command" :> S("")) @@ ("action" :> S("version")) @@ ("type" :> S("tap"))),
      D(("command" :> Null) @@ ("type" :> S("get_screen_size"))),
      D(("action" :> S("frobnicate")) @@ ("type" :> S("version"))) }

Messages ==
    {Garbage, L(<<>>), EmptyDict, D("command" :> S("")), D("action" :> I(7))}
    \cup SeveralIds
    \cup {D((id :> S(a)) @@ b) : id \in Ids, a \in {"tap"}, b \in TapBodies}
    \cup UNION {{D((id :> S(a)) @@ b) : b \in Bodies(a)} :
                    id \in Ids, a \in (KnownActions \cup UnknownActions \cup DirectOnly) \ {"tap"}}

\* the outcomes of the adb command a message makes the handler run that the
\* handler can tell apart; for a message that runs none, what adb would do at
\* that moment (device offline: it fails; device there: it succeeds)
Hows(msg) ==
    LET ran == Dispatch(msg, [kind |-> "raise"]).ran IN
    IF ran = <<>> THEN {[kind |-> "raise"]} \cup {[kind |-> "exit", rc |-> rc, out |-> ""] : rc \in {0, 1}}
    ELSE IF ran[1][5] = "screencap"
    THEN {[kind |-> "raise"]} \cup {[kind |-> "exit", rc |-> rc, out |-> o] : rc \in {0, 1}, o \in {"", "PNG"}}
    ELSE IF ran[1][5] = "wm"
    THEN {[kind |-> "raise"]} \cup {[kind |-> "exit", rc |-> rc, out |-> o] : rc \in {0, 1}, o \in SizeOutputs}
    ELSE {[kind |-> "raise"]} \cup {[kind |-> "exit", rc |-> rc, out |-> o] : rc \in {0, 1}, o \in InputOutputs}

\* every message with every outcome of its command
Requests == UNION {{<<msg, how>> : how \in Hows(msg)} : msg \in Messages}

NoRequest == [conn |-> "none"]

\* a failure of one connection taking the whole server down
AfterEscape_server_dies(cn, c) == [d \in DOMAIN cn |-> "closed"]

\* lines 172-175: the except clauses of handle_connection catch what leaves the
\* loop of connection c; its coroutine ends and the others are not touched
AfterEscape(cn, c) == [cn EXCEPT ![c] = "closed"]

\* lines 170-171 and 56-158: a message is received on connection c and
\* handle_message runs, command included, up to its first await, the call of
\* websocket.send (line 158, or line 162 when the message cannot be read):
\* the coroutine gives way there with the request in hand (serve.sending).
\* serve.handling holds the request taken last, last the request completed
\* last when none was taken since.
HandleRequest(c) ==
    /\ conn[c] = "open"
    /\ serve.sending[c] = 0
    /\ \E r \in Requests :
          serve' = [serve EXCEPT !.sending[c] = 1,
                                 !.handling = [conn |-> c, msg |-> r[1], how |-> r[2]]]
    /\ last' = NoRequest
    /\ UNCHANGED <<conn, providerVars, session>>

\* lines 158-163 and 170-175: the send of connection c completes; when the
\* peer has gone meanwhile it raises, so does the send of the error response
\* of line 162, and the exception that leaves handle_message ends the
\* connection's loop
FinishRequest(c) ==
    /\ serve.sending[c] # 0
    /\ \E gone \in BOOLEAN :
          LET h == serve.handling
              out == handle_message(h.msg, h.how, gone)
          IN  IF h.conn = c
              THEN /\ last' = [conn |-> c, msg |-> h.msg, how |-> h.how, peerGone |-> gone,
                               ran |-> out.ran, sent |-> out.sent, escaped |-> out.escaped]
                   /\ conn' = IF out.escaped THEN AfterEscape(conn, c) ELSE conn
                   /\ serve' = [serve EXCEPT !.sending[c] = 0, !.handling = NoRequest]
              ELSE /\ last' = last
                   /\ conn' = IF gone THEN AfterEscape(conn, c) ELSE conn
                   /\ serve' = [serve EXCEPT !.sending[c] = 0]
    /\ UNCHANGED <<providerVars, session>>

\* the client closes between two requests, every message it sent handled:
\* the async for of line 170 ends
Disconnect(c) ==
    /\ conn[c] = "open"
    /\ serve.running[c] = 0
    /\ serve.sending[c] = 0
    /\ Len(serve.answered[c]) = Len(serve.received[c])
    /\ conn' = [conn EXCEPT ![c] = "closed"]
    /\ UNCHANGED <<last, providerVars, session, serve>>

\* websockets.serve hands a new connection to handle_connection
Connect(c) ==
    /\ conn[c] = "closed"
    /\ conn' = [conn EXCEPT ![c] = "open"]
    /\ UNCHANGED <<last, providerVars, session, serve>>

\* no message received yet
NoServe ==
    [received |-> [c \in Conns |-> <<>>], answered |-> [c \in Conns |-> <<>>],
     running |-> [c \in Conns |-> 0], sending |-> [c \in Conns |-> 0], count |-> 0,
     lost |-> [c \in Conns |-> {}], handling |-> NoRequest]

BridgeInit ==
    /\ conn = [c \in Conns |-> "closed"]
    /\ last = NoRequest
    /\ serve = NoServe

NextBridge ==
    \/ \E c \in Conns : HandleRequest(c)
    \/ \E c \in Conns : FinishRequest(c)
    \/ \E c \in Conns : Disconnect(c)
    \/ \E c \in Conns : Connect(c)

(***************************************************************************)
(* bridge_server.py: the FastAPI variant of the bridge.  websocket_endpoint *)
(* (lines 34-86) has its while loop inside one try: what a request raises  *)
(* is logged by line 84 and the finally of line 86 closes the connection.  *)
(* The helpers (lines 108-137) run docker exec <container> adb shell ...   *)
(* with subprocess.run, which raises when the command cannot be started.   *)
(***************************************************************************)
DockerAdb == <<"docker", "exec", "android-container", "adb", "shell">>

\* one request: the response sent, or the exception raised instead, and the
\* command run
websocket_endpoint(msg, how) ==
    LET Run(words) ==
            IF how.kind = "raise" THEN Threw("OSError", <<DockerAdb \o words>>)
            ELSE Built([success |-> TRUE], <<DockerAdb \o words>>)
    IN
    IF msg.t = "garbage" THEN Threw("JSONDecodeError", <<>>)
    ELSE IF msg.t # "dict" THEN Threw("AttributeError", <<>>)
    ELSE LET action == Get(msg, "action", Null) IN
         IF IsOneOf(action, {"screenshot"})
         THEN IF how.kind = "raise" THEN Run(<<"screencap", "-p">>)
              ELSE IF how.rc = 0 /\ how.out # ""
              THEN Built([success |-> TRUE, screenshot |-> "base64"], <<DockerAdb \o <<"screencap", "-p">> >>)
              ELSE Built([success |-> FALSE], <<DockerAdb \o <<"screencap", "-p">> >>)
         ELSE IF IsOneOf(action, {"click"})
         THEN Run(<<"input", "tap", PyStr(Get(msg, "x", I(0))), PyStr(Get(msg, "y", I(0)))>>)
         ELSE IF IsOneOf(action, {"type"})
         THEN LET text == Get(msg, "text", S("")) IN
              IF text.t # "str" THEN Threw("AttributeError", <<>>)
              ELSE Run(<<"input", "text", EscapeText(text.v)>>)
         ELSE IF IsOneOf(action, {"swipe"})
         THEN Run(<<"input", "swipe", PyStr(Get(msg, "x1", I(0))), PyStr(Get(msg, "y1", I(0))),
                    PyStr(Get(msg, "x2", I(0))), PyStr(Get(msg, "y2", I(0))),
                    PyStr(Get(msg, "duration", I(250)))>>)
         ELSE IF IsOneOf(action, {"key"})
         THEN Run(<<"input", "keyevent", PyStr(Get(msg, "keycode", S("")))>>)
         ELSE Built([success |-> FALSE, error |-> <<"Unknown action", action>>], <<>>)

\* the requests of the FastAPI variant
WsMessages ==
    {Garbage, L(<<>>), EmptyDict, D("command" :> S("click"))}
    \cup {D(("action" :> S(a)) @@ b) :
            a \in {"screenshot", "click", "type", "swipe", "key", "frobnicate"},
            b \in {[k \in {} |-> Null], Coords(1, 2), "text" :> S("a b"), "text" :> I(5),
                   "keycode" :> I(66)}}

\* every request with the outcomes of its command
WsRequests ==
    {<<msg, how>> :
        msg \in WsMessages,
        how \in {[kind |-> "raise"]}
                  \cup {[kind |-> "exit", rc |-> rc, out |-> o] : rc \in {0, 1}, o \in {"", "PNG"}}}

\* lines 38-82: one turn of the while loop on connection c up to its await
\* websocket.send_json, where the coroutine gives way with the request in
\* hand; or, when the message cannot be read or the command raises, the way
\* out of the loop by lines 83-86 with nothing sent
WsRequest(c) ==
    /\ conn[c] = "open"
    /\ serve.sending[c] = 0
    /\ \E r \in WsRequests :
          LET out == websocket_endpoint(r[1], r[2]) IN
          IF out.exc
          THEN /\ \E gone \in BOOLEAN :
                     last' = [conn |-> c, msg |-> r[1], how |-> r[2], peerGone |-> gone,
                              ran |-> out.ran, sent |-> <<>>, escaped |-> TRUE]
               /\ conn' = AfterEscape(conn, c)
               /\ serve' = serve
          ELSE /\ last' = NoRequest
               /\ conn' = conn
               /\ serve' = [serve EXCEPT !.sending[c] = 1,
                                          !.handling = [conn |-> c, msg |-> r[1], how |-> r[2]]]
    /\ UNCHANGED <<providerVars, session>>

\* lines 45-86: the send_json of connection c completes and the loop goes on;
\* when the peer has gone meanwhile it raises, line 84 logs it and line 86
\* closes the connection
WsFinishRequest(c) ==
    /\ serve.sending[c] # 0
    /\ \E gone \in BOOLEAN :
          LET h == serve.handling
              out == websocket_endpoint(h.msg, h.how)
          IN  /\ conn' = IF gone THEN AfterEscape(conn, c) ELSE conn
              /\ IF h.conn = c
                 THEN /\ last' = [conn |-> c, msg |-> h.msg, how |-> h.how, peerGone |-> gone,
                                  ran |-> out.ran, sent |-> IF gone THEN <<>> ELSE <<out.resp>>,
                                  escaped |-> gone]
                      /\ serve' = [serve EXCEPT !.sending[c] = 0, !.handling = NoRequest]
                 ELSE /\ last' = last
                      /\ serve' = [serve EXCEPT !.sending[c] = 0]
    /\ UNCHANGED <<providerVars, session>>

NextWs ==
    \/ \E c \in Conns : WsRequest(c)
    \/ \E c \in Conns : WsFinishRequest(c)
    \/ \E c \in Conns : Disconnect(c)
    \/ \E c \in Conns : Connect(c)

(***************************************************************************)
(* The event loop of the bridge server: handle_connection runs as one      *)
(* coroutine per connection on one thread.  A request is a number, given   *)
(* in order of arrival.  A coroutine gives way at an await that suspends:  *)
(* the async for of line 170 and the send of line 158; subprocess.run in   *)
(* execute_adb (line 45) is an ordinary call.                              *)
(***************************************************************************)
\* a handle_connection that takes the newest message first
NextRequest_newest(received, done) == received[Len(received)]

\* line 170: async for message in websocket yields the messages in the order
\* received; done of them have been handled
NextRequest(received, done) == received[done + 1]

\* an execute_adb that awaits its subprocess (asyncio.create_subprocess_exec)
LoopFree_while_command(running) == TRUE

\* lines 42-47: subprocess.run(cmd, capture_output=True, timeout=10) is called
\* inside the coroutine; until it returns, the thread runs no other coroutine
LoopFree(running) == \A d \in DOMAIN running : running[d] = 0

\* a message arrives on connection c
Arrive(c) ==
    /\ conn[c] = "open"
    /\ serve.count < MaxRequests
    /\ serve' = [serve EXCEPT !.count = @ + 1,
                              !.received[c] = Append(@, serve.count + 1)]
    /\ UNCHANGED <<conn, last, providerVars, session>>

\* lines 170-171: the loop of connection c takes its next message and
\* handle_message runs up to and into its adb command
BeginRequest(c) ==
    /\ conn[c] = "open"
    /\ serve.running[c] = 0
    /\ serve.sending[c] = 0
    /\ Len(serve.answered[c]) < Len(serve.received[c])
    /\ LoopFree(serve.running)
    /\ serve' = [serve EXCEPT !.running[c] =
                                  NextRequest(serve.received[c], Len(serve.answered[c]))]
    /\ UNCHANGED <<conn, last, providerVars, session>>

\* lines 45-54 and 158: the command returns (at the latest after its 10 s),
\* the response is built and await websocket.send is called: the coroutine
\* gives way there, the thread is free for the other connections
CallSend(c) ==
    /\ serve.running[c] # 0
    /\ serve' = [serve EXCEPT !.sending[c] = serve.running[c], !.running[c] = 0]
    /\ UNCHANGED <<conn, last, providerVars, session>>

\* the messages received on connection c and not answered
Unanswered(c) ==
    {serve.received[c][i] : i \in (Len(serve.answered[c]) + 1)..Len(serve.received[c])}

\* line 158 completes: the response is sent; or the peer is gone, the send
\* raises and the loop of the connection ends (lines 160-175): the request in
\* hand and the messages still queued on the connection's websocket go with
\* it (serve.lost), no code keeps them
EndRequest(c) ==
    /\ serve.sending[c] # 0
    /\ \/ /\ serve' = [serve EXCEPT !.answered[c] = Append(@, serve.sending[c]),
                                    !.sending[c] = 0]
          /\ conn' = conn
       \/ /\ serve' = [serve EXCEPT !.sending[c] = 0,
                                    !.received[c] = serve.answered[c],
                                    !.lost[c] = @ \cup Unanswered(c)]
          /\ conn' = AfterEscape(conn, c)
    /\ UNCHANGED <<last, providerVars, session>>

NextLoop ==
    \/ \E c \in Conns : Arrive(c)
    \/ \E c \in Conns : BeginRequest(c)
    \/ \E c \in Conns : CallSend(c)
    \/ \E c \in Conns : EndRequest(c)
    \/ \E c \in Conns : Disconnect(c)
    \/ \E c \in Conns : Connect(c)

(***************************************************************************)
(* The session scripts: main of android_agent_websocket.py and of          *)
(* test_android_websocket.py.  Computer, its run() and its stop() are not  *)
(* among the sources: run() and stop() either return or raise.             *)
(***************************************************************************)
NoSession == [stage |-> "none"]

Scripts == {"agent", "ws_test"}

\* android_agent_websocket.py lines 226-227, test_android_websocket.py lines 27, 167-168
EnvName(script) == IF script = "agent" THEN "android-agent" ELSE "android-ws-test"

NewSession(script) ==
    [script |-> script, stage |-> "start", threw |-> "none", pending |-> "none",
     env |-> "absent", stop |-> "none", cmds |-> <<>>, rcs |-> <<>>, raised |-> "none"]

\* what a print statement can raise: KeyboardInterrupt while it runs,
\* BrokenPipeError when stdout is closed
PrintRaises == {"KeyboardInterrupt", "BrokenPipeError"}

\* what the try block of main can be left with: except Exception (and except
\* TimeoutError in the test) handle the Exception classes; KeyboardInterrupt,
\* asyncio.CancelledError (the task cancelled, as asyncio.run does at the
\* first SIGINT) and SystemExit derive from BaseException and pass
Thrown ==
    {"TimeoutError", "RuntimeError", "BrokenPipeError", "KeyboardInterrupt", "CancelledError",
     "SystemExit"}

Handles(exc) == exc \in {"TimeoutError", "RuntimeError", "BrokenPipeError"}

\* what leaves the interactive loop as an exception: from the body of its try
\* what neither except KeyboardInterrupt nor except Exception takes, from the
\* bodies of those handlers (agent 208, 211-213; test 134, 137-139) whatever
\* their prints raise
LoopEscapes ==
    {exc \in Thrown : ~Handles(exc) /\ exc # "KeyboardInterrupt"} \cup PrintRaises

\* await computer.run()
SessionRun ==
    /\ session.stage = "start"
    /\ \/ session' = [session EXCEPT !.stage = "prelude", !.env = "running"]
       \/ \E exc \in Thrown, e \in {"running", "absent"} :
             session' = [session EXCEPT !.stage = "exit", !.threw = exc, !.env = e]
    /\ UNCHANGED <<providerVars, bridgeVars>>

\* the statements between run() and the interactive loop, outside the loop's try
SessionPrelude ==
    /\ session.stage = "prelude"
    /\ \/ session' = [session EXCEPT !.stage = "loop"]
       \/ \E exc \in Thrown : session' = [session EXCEPT !.stage = "exit", !.threw = exc]
    /\ UNCHANGED <<providerVars, bridgeVars>>

\* the interactive loop ends: exit typed, or KeyboardInterrupt inside the
\* loop's try (agent lines 207-209, test lines 133-135): break.  An exception
\* of a turn is printed by the loop's own except and the loop goes on; what
\* neither handler of the loop takes, and what a handler itself raises, leaves
\* the loop and the try block of main.
SessionLoopEnds ==
    /\ session.stage = "loop"
    /\ \/ session' = [session EXCEPT !.stage = "exit"]
       \/ \E exc \in LoopEscapes : session' = [session EXCEPT !.stage = "exit", !.threw = exc]
    /\ UNCHANGED <<providerVars, bridgeVars>>

\* the environment is stopped or removed from outside during the session
SessionEnvVanishes ==
    /\ session.stage \in {"prelude", "loop", "exit"}
    /\ session.env = "running"
    /\ \E e \in {"stopped", "absent"} : session' = [session EXCEPT !.env = e]
    /\ UNCHANGED <<providerVars, bridgeVars>>

\* agent lines 220-228: finally, on every way out of the try; test lines
\* 160-169: else, only when the try block ended without an exception
TeardownRuns(script, threw) == script = "agent" \/ threw = "none"

\* what leaves main: an exception no except clause handles
Escapes(threw) == IF threw # "none" /\ ~Handles(threw) THEN threw ELSE "none"

\* what is on its way out after the except clauses of main (agent 215-218,
\* test 141-158): what they do not handle; after a handler ran nothing, or
\* what its prints raised
AfterHandlers(threw) ==
    IF threw # "none" /\ Handles(threw) THEN {"none"} \cup PrintRaises ELSE {Escapes(threw)}

\* what main is left with after the last line of the teardown (agent 228, test
\* 169), a print outside any try: what was on its way out, or what the print
\* raised
AfterReport(pending) == {pending} \cup PrintRaises

\* the way out of the try block: the except clauses, then the teardown's
\* first line (agent 221, test 162), a print that can raise before
\* computer.stop() is called
SessionExit ==
    /\ session.stage = "exit"
    /\ \E out \in AfterHandlers(session.threw) :
          IF TeardownRuns(session.script, session.threw)
          THEN \/ session' = [session EXCEPT !.stage = "stop", !.pending = out]
               \/ \E exc \in PrintRaises :
                     session' = [session EXCEPT !.stage = "done", !.pending = out, !.raised = exc]
          ELSE session' = [session EXCEPT !.stage = "done", !.pending = out, !.raised = out]
    /\ UNCHANGED <<providerVars, bridgeVars>>

\* try: await computer.stop() / except: (agent 222-224, test 163-165); when
\* stop() returned, the last line of the teardown follows
SessionStop ==
    /\ session.stage = "stop"
    /\ \/ \E exc \in AfterReport(session.pending) :
             session' = [session EXCEPT !.stage = "done", !.stop = "ok",
                                        !.env = IF @ = "running" THEN "stopped" ELSE @,
                                        !.raised = exc]
       \/ session' = [session EXCEPT !.stage = "fallback_stop", !.stop = "raised"]
    /\ UNCHANGED <<providerVars, bridgeVars>>

\* docker stop <name> can succeed on an environment that exists, docker rm
\* <name> on one that exists and does not run
StopExit(env) == IF env = "absent" THEN {1} ELSE {0, 1}
RemoveExit(env) == IF env = "stopped" THEN {0, 1} ELSE {1}

\* subprocess.run(..., capture_output=True) without check=True: the exit
\* status is not looked at
FallbackRaises(rc) == FALSE

\* subprocess.run raising instead of returning: the executable cannot be
\* started (OsErrors), or KeyboardInterrupt arrives, before the command is
\* started (NotStarted: no command is issued) or while it runs (the command
\* was issued, its exit status is never seen)
NotStarted == OsErrors \cup {"KeyboardInterrupt"}

\* the environment after a docker stop that was interrupted
AfterInterruptedStop(env) == IF env = "absent" THEN {env} ELSE {env, "stopped"}

\* the environment after a docker rm that was interrupted
AfterInterruptedRemove(env) == IF env = "stopped" THEN {env, "absent"} ELSE {env}

\* agent line 226, test line 167: inside the bare except, in no try of its
\* own; an exception of subprocess.run leaves main and line 227 (168) is not
\* reached
SessionFallbackStop ==
    /\ session.stage = "fallback_stop"
    /\ \/ \E rc \in StopExit(session.env) :
             session' = [session EXCEPT
                            !.cmds = Append(@, <<"docker", "stop", EnvName(session.script)>>),
                            !.rcs = Append(@, rc),
                            !.env = IF rc = 0 THEN "stopped" ELSE @,
                            !.stage = IF FallbackRaises(rc) THEN "done" ELSE "fallback_rm",
                            !.raised = IF FallbackRaises(rc) THEN "CalledProcessError" ELSE @]
       \/ \E exc \in NotStarted :
             session' = [session EXCEPT !.stage = "done", !.raised = exc]
       \/ \E exc \in {"KeyboardInterrupt"}, e \in AfterInterruptedStop(session.env) :
             session' = [session EXCEPT
                            !.cmds = Append(@, <<"docker", "stop", EnvName(session.script)>>),
                            !.env = e,
                            !.stage = "done",
                            !.raised = exc]
    /\ UNCHANGED <<providerVars, bridgeVars>>

\* agent lines 227-228, test lines 168-169: docker rm, then the last line of
\* the teardown
SessionFallbackRemove ==
    /\ session.stage = "fallback_rm"
    /\ \/ \E rc \in RemoveExit(session.env), exc \in AfterReport(session.pending) :
             session' = [session EXCEPT
                            !.cmds = Append(@, <<"docker", "rm", EnvName(session.script)>>),
                            !.rcs = Append(@, rc),
                            !.env = IF rc = 0 THEN "absent" ELSE @,
                            !.stage = "done",
                            !.raised = IF FallbackRaises(rc) THEN "CalledProcessError"
                                       ELSE exc]
       \/ \E exc \in NotStarted :
             session' = [session EXCEPT !.stage = "done", !.raised = exc]
       \/ \E exc \in {"KeyboardInterrupt"}, e \in AfterInterruptedRemove(session.env) :
             session' = [session EXCEPT
                            !.cmds = Append(@, <<"docker", "rm", EnvName(session.script)>>),
                            !.env = e,
                            !.stage = "done",
                            !.raised = exc]
    /\ UNCHANGED <<providerVars, bridgeVars>>

NextSession ==
    \/ SessionRun
    \/ SessionPrelude
    \/ SessionLoopEnds
    \/ SessionEnvVanishes
    \/ SessionExit
    \/ SessionStop
    \/ SessionFallbackStop
    \/ SessionFallbackRemove

InitSession ==
    /\ ProviderInit /\ engine = NoEnv
    /\ BridgeInit
    /\ session \in {NewSession(script) : script \in Scripts}

(***************************************************************************)
(* The provider's specification.                                           *)
(***************************************************************************)
Next ==
    \/ \E name \in Names : run_vm(name)
    \/ \E name \in Names : RestartExisting(name)
    \/ \E name \in Names : CreateEnvironment(name)
    \/ WaitContainerReady
    \/ WaitEmulator
    \/ WaitAdb
    \/ Stabilize
    \/ ProvisionProbe
    \/ ProvisionCopy
    \/ ProvisionDeps
    \/ ProvisionKill
    \/ ProvisionLaunch
    \/ ProvisionVerify
    \/ ProvisionDirectMode
    \/ \E name \in Names : FinishSetup(name)
    \/ EnvironmentHalts
    \/ EnvironmentRemoved

vars == <<providerVars, bridgeVars, session>>

Init == ProviderInit /\ BridgeInit /\ session = NoSession

Spec == Init /\ [][Next]_vars

(***************************************************************************)
(* The bridge server's specification: the provider stays as constructed.   *)
(***************************************************************************)
\* _wait_for_adb_ready called by itself on a running environment, with each
\* of the timeouts
Timeouts == {10, emulator_budget, 40, default_timeout}

InitWait ==
    /\ occupied = {}
    /\ engine = [status |-> "running", id |-> 0, ports |-> AllPorts]
    /\ nextId = 1
    /\ inside = NoInside
    /\ container_name = "none"
    /\ container_id = -1
    /\ android_ready = FALSE
    /\ pc = "wait_emulator"
    /\ path = "none"
    /\ existing_vm = NoVm
    /\ elapsed = 0
    /\ timeout \in Timeouts
    /\ waitResult = "none"
    /\ lastObs = "none"
    /\ waited = NoWaited
    /\ prov = NoProv
    /\ cmds = <<>>
    /\ runArgs = <<>>
    /\ exit = NoExit
    /\ result = NoResult
    /\ BridgeInit
    /\ session = NoSession

NextWait ==
    \/ WaitEmulator
    \/ WaitAdb
    \/ Stabilize

SpecWait == InitWait /\ [][NextWait]_vars

\* the readiness wait with a caller that may cancel it
NextCancel ==
    \/ NextWait
    \/ CancelWait

SpecCancel == InitWait /\ [][NextCancel]_vars

\* the provider with cancellation and commands that hang
NextFaults ==
    \/ Next
    \/ CancelWait
    \/ CommandHangs
    \/ CommandRaises

SpecFaults == Init /\ [][NextFaults]_vars

InitBridge == BridgeInit /\ ProviderInit /\ engine = NoEnv /\ session = NoSession

SpecBridge == InitBridge /\ [][NextBridge]_vars

\* the server with its connections accepted
InitLoop ==
    /\ ProviderInit /\ engine = NoEnv /\ session = NoSession
    /\ conn = [c \in Conns |-> "open"]
    /\ last = NoRequest
    /\ serve = NoServe

SpecWs == InitBridge /\ [][NextWs]_vars

SpecLoop == InitLoop /\ [][NextLoop]_vars

SpecSession == InitSession /\ [][NextSession]_vars

(***************************************************************************)
(* Properties.                                                             *)
(***************************************************************************)
Range(seq) == {seq[i] : i \in DOMAIN seq}

\* run_vm has returned and nothing was called since
Returned == pc = "idle" /\ result.status # "none"

\* the environment is removed from outside while run_vm waits
RemovedMeanwhile == engine # NoEnv /\ engine' = NoEnv /\ pc' = pc /\ cmds' = cmds

\* C1: every step of a run_vm call that found the environment running leaves the
\* engine as it is (same environment, same identity, same ports, no new
\* identity handed out) unless the step is a removal from outside, issues
\* neither docker run nor docker start, and the call returns the record it
\* found.
C1_StartIdempotentWhileRunning ==
    [][ (existing_vm'.status = "running" /\ (pc # "idle" \/ pc' # "idle"))
          => /\ engine' = engine \/ RemovedMeanwhile
             /\ nextId' = nextId
             /\ "run" \notin Range(cmds')
             /\ "start" \notin Range(cmds')
             /\ engine' # NoEnv
                   => existing_vm'.id = engine'.id /\ existing_vm'.ports = engine'.ports
             /\ (pc' = "idle" => result' = existing_vm') ]_vars

\* a later run_vm on an environment an earlier run_vm created, about to return
C1_Witness ==
    /\ existing_vm.status = "running"
    /\ pc = "finish"
    /\ android_ready
    /\ engine # NoEnv
    /\ engine.id = 1
    /\ cmds # <<>>

\* C2: once docker run has exited nonzero, run_vm has returned an error record
\* carrying that stderr, docker run was the only command of the call, and no
\* readiness wait and no provisioning took place.
C2_CreationFailureIsFatal ==
    (exit.cmd = "run" /\ exit.rc # 0)
        => /\ pc = "idle"
           /\ result.status = "error"
           /\ result.error[3].type = "RuntimeError"
           /\ result.error[3].stderr = exit.stderr
           /\ cmds = <<"run">>
           /\ waitResult = "none"
           /\ lastObs = "none"

C2_Witness ==
    /\ exit.cmd = "run"
    /\ exit.rc # 0
    /\ exit.stderr = "no such image"
    /\ Returned
    /\ result.status = "error"

\* C3: with the control-channel port held by another process, run_vm issues no
\* docker run and returns a PortUnavailable error.
C3_ControlPortUnavailable ==
    (api_port \in occupied)
        => /\ "run" \notin Range(cmds)
           /\ (Returned => result.status = "error" /\ result.error[3].type = "PortUnavailable")

\* C4: the -p arguments of docker run are the control-channel mapping and
\* exactly the optional mappings whose host port was free, each with the
\* desired host port; a call for an absent environment always gets to docker
\* run; and docker run is refused a port only when that port is the
\* control-channel one.
OptionalMappings ==
    {<<vnc_port, 6080>>, <<adb_port, 5555>>, <<console_port, 5554>>, <<vnc_alt_port, 5900>>}

ExpectedMappings == {<<api_port, 8000>>} \cup {m \in OptionalMappings : m[1] \notin occupied}

C4_OptionalPortsOmitted ==
    /\ (path = "create" /\ pc # "create") => exit.cmd = "run"
    /\ exit.cmd = "run"
          => /\ Range(runArgs) = ExpectedMappings
             /\ Len(runArgs) = Cardinality(ExpectedMappings)
             /\ (exit.stderr = "port is already allocated" => api_port \in occupied)

C4_Witness ==
    /\ exit.cmd = "run"
    /\ exit.rc = 0
    /\ occupied = {vnc_port, console_port}
    /\ engine.status = "running"
    /\ engine.ports = << <<adb_port, 5555>>, <<api_port, 8000>>, <<vnc_alt_port, 5900>> >>

\* C5, as claimed: a run_vm that found the environment stopped or paused issued
\* docker start, never docker run, and went through the readiness wait and the
\* provisioning before it returned.
C5_RestartThenWaitAndProvision ==
    (existing_vm.status \in {"stopped", "paused"} /\ Returned)
        => /\ Len(cmds) >= 1 /\ cmds[1] = "start"
           /\ "run" \notin Range(cmds)
           /\ waitResult # "none"
           /\ "adb_devices" \in Range(cmds)

\* C5, amended: such a run_vm issued docker start first and never docker run;
\* when docker start exited zero it went through the readiness wait and the
\* provisioning and returned the record of the same environment (same
\* identity, same ports), now running; when docker start exited nonzero it
\* returned an error record with no wait and no provisioning.  (The record is
\* that of the environment as long as nobody removed it during the wait.)
C5_RestartInPlace ==
    (existing_vm.status \in {"stopped", "paused"} /\ Returned)
        => /\ Len(cmds) >= 1 /\ cmds[1] = "start"
           /\ "run" \notin Range(cmds)
           /\ exit.cmd = "start"
           /\ IF exit.rc = 0
              THEN /\ waitResult # "none"
                   /\ "adb_devices" \in Range(cmds)
                   /\ ~waited.gone
                         => /\ result.status = "running"
                            /\ result.id = existing_vm.id
                            /\ result.ports = existing_vm.ports
              ELSE /\ cmds = <<"start">>
                   /\ waitResult = "none"
                   /\ result.status = "error"

C5_Witness ==
    /\ existing_vm.status = "stopped"
    /\ Returned
    /\ exit.rc = 0
    /\ result.status = "running"
    /\ waitResult = "ready"

\* C6: a message that decodes to a JSON object, handled while the peer is
\* there, is answered with exactly one response.
C6_ExactlyOneResponse ==
    (last.conn # "none" /\ last.msg.t = "dict" /\ ~last.peerGone)
        => Len(last.sent) = 1

\* a request whose handling raised, answered once
C6_Witness ==
    /\ last.conn # "none"
    /\ last.msg = D(("command" :> S("tap")) @@ ("coordinate" :> I(5)))
    /\ ~last.peerGone
    /\ Len(last.sent) = 1

\* C7: a request whose action identifier is missing or not a known action runs
\* no adb command and, the peer being there, gets the one response
\* {success: true, action: <the identifier>, status: "ok"}, and no exception
\* leaves the handler, so the connection's loop goes on.
Identifier(msg) ==
    IF Truthy(Get(msg, "command", Null)) THEN Get(msg, "command", Null)
    ELSE IF Truthy(Get(msg, "action", Null)) THEN Get(msg, "action", Null)
    ELSE Get(msg, "type", Null)

IsUnknown(msg) ==
    /\ msg.t = "dict"
    /\ ~(Identifier(msg).t = "str" /\ Identifier(msg).v \in KnownActions)

C7_UnknownActionAcknowledged ==
    (last.conn # "none" /\ IsUnknown(last.msg))
        => /\ last.ran = <<>>
           /\ ~last.peerGone
                 => /\ last.sent = <<[success |-> TRUE, action |-> Identifier(last.msg), status |-> "ok"]>>
                    /\ ~last.escaped

C7_Witness ==
    /\ last.conn # "none"
    /\ last.msg = D("type" :> S("frobnicate"))
    /\ ~last.peerGone
    /\ last.sent = <<[success |-> TRUE, action |-> S("frobnicate"), status |-> "ok"]>>
    /\ conn[last.conn] = "open"

\* C8: a request whose handling failed inside (a message that is no JSON
\* object, an exception while building the response, an adb command that could
\* not be run or timed out) is answered, the peer being there, with one
\* response that has success false and an error string, and no exception
\* leaves the handler.
InternalFailure(l) ==
    \/ l.msg.t # "dict"
    \/ Dispatch(l.msg, l.how).exc
    \/ l.ran # <<>> /\ l.how.kind = "raise"

C8_FailureAnsweredWithError ==
    (last.conn # "none" /\ ~last.peerGone /\ InternalFailure(last))
        => /\ Len(last.sent) = 1
           /\ last.sent[1].success = FALSE
           /\ "error" \in DOMAIN last.sent[1]
           /\ ~last.escaped

\* the readiness state of the specification that a position of
\* _wait_for_adb_ready stands for
ReadinessState ==
    CASE waitResult = "ready" -> "SystemBooted"
      [] waitResult = "timed_out" -> "TimedOut"
      [] pc = "stabilize" -> "DeviceOnline"
      [] pc = "wait_adb" -> IF lastObs = "not_ready" THEN "DeviceOffline" ELSE "WaitingForTransport"
      [] pc = "wait_emulator" -> "BootingKernel"
      [] OTHER -> "Created"

\* C9: whatever was observed before, a probe within the budget that lists a
\* device with the ready status puts the wait in DeviceOnline, from where its
\* only step ends it in SystemBooted; the wait ends in SystemBooted only through
\* DeviceOnline, and a wait that saw a ready device never ends otherwise.
C9_ReadyObservationEndsBooted ==
    [][ /\ lastObs' \in ReadyObs => ReadinessState' \in {"DeviceOnline", "SystemBooted"}
        /\ (pc = "wait_adb" /\ lastObs' \in ReadyObs) => ReadinessState' = "DeviceOnline"
        /\ ReadinessState = "DeviceOnline" => ReadinessState' = "SystemBooted"
        /\ (ReadinessState' = "SystemBooted" /\ ReadinessState # "SystemBooted")
              => ReadinessState = "DeviceOnline" ]_vars

\* the ready device shows at the last probe the budget allows
C9_Witness ==
    /\ lastObs = "ready_multi"
    /\ waitResult = "ready"
    /\ pc = "provision"

\* C10: a run_vm whose readiness wait ran out of its budget returns an error
\* record that says so.
C10_TimeoutReported ==
    (Returned /\ waitResult = "timed_out")
        => /\ result.status = "error"
           /\ result.error[3].type = "ReadinessTimedOut"

\* C11: the step out of DeviceOnline is always possible, and once the
\* boot-completion query was made, whatever it answered (completed, not
\* completed, failed), the wait has returned ready: it is back neither in the
\* transport loop nor in DeviceOnline.
C11_BootFlagAdvisory ==
    /\ pc = "stabilize" => ENABLED Stabilize
    /\ waited.boot # "none"
          => /\ waited.boot \in {"completed", "not_completed", "failed"}
             /\ waitResult = "ready"
             /\ ReadinessState = "SystemBooted"
             /\ pc \notin {"wait_emulator", "wait_adb", "stabilize"}

\* the query failed and start returned the running environment all the same
C11_Witness ==
    /\ waited.boot = "failed"
    /\ waitResult = "ready"
    /\ Returned
    /\ result.status = "running"

\* C12: once a probe has failed because the environment is gone, the wait is in
\* Failed: it polls no more and has ended neither in TimedOut nor in
\* SystemBooted.
C12_StructuralFailureIsFatal ==
    lastObs = "env_gone"
        => /\ ReadinessState = "Failed"
           /\ pc # "wait_adb"
           /\ waitResult \notin {"timed_out", "ready"}

\* C13: the wait is in DeviceOnline only after a listing with exactly one
\* attached device, that one ready.
C13_ExactlyOneReadyDevice ==
    pc = "stabilize" => lastObs = "ready_single"

\* C14: when the emulator process was never seen during the sub-timeout, the
\* wait has gone on to the transport loop with budget left for it to poll, no
\* error is returned on that account, and the wait ends as the transport loop
\* ends it.
C14_EmulatorUnseenProceeds ==
    waited.emu = "unseen"
        => /\ pc # "wait_emulator"
           /\ (pc = "wait_adb" /\ lastObs = "none") => elapsed < timeout
           /\ pc \notin {"wait_adb", "stabilize"} => waitResult \in {"ready", "timed_out"}
           /\ Returned => result.status # "error"

C14_Witness ==
    /\ waited.emu = "unseen"
    /\ waitResult = "ready"
    /\ lastObs \in ReadyObs
    /\ Returned

\* C15: the ready flag, once set, stays set through every later step: repeated
\* starts, waits that time out, provisioning that fails.
C15_ReadinessMonotonic ==
    [][android_ready => android_ready']_vars

\* a later start on the environment this provider created, whose wait timed out
\* and whose provisioning failed at the probe, has returned with the flag set
C15_Witness ==
    /\ android_ready
    /\ Returned
    /\ path = "reuse"
    /\ engine # NoEnv
    /\ engine.id = 1
    /\ waitResult = "timed_out"
    /\ prov.probe = "failed"

\* C16: after a failing toolchain probe the call issues no copy-in, no
\* dependency-install, no terminate and no launch command; provisioning is over.
DepsCmdNames ==
    <<"pip3_break_system_packages", "pip3", "pip_break_system_packages",
      "apt_get_update", "apt_get_install">>

C16_ProbeFailureAborts ==
    prov.probe = "failed"
        => /\ Range(cmds) \cap ({"cp", "pkill", "launch", "ps", "cat_log"} \cup Range(DepsCmdNames)) = {}
           /\ cmds[Len(cmds)] = "adb_devices"
           /\ pc \in {"finish", "idle"}
           /\ prov.script = "none" /\ prov.deps = <<>> /\ prov.launch = "none"

C16_Witness ==
    /\ prov.probe = "failed"
    /\ engine.status = "running"
    /\ Returned
    /\ cmds = <<"adb_devices">>

\* C17: the dependency commands of a call are the fixed list cut after the
\* last strategy run; every strategy but the last one run had failed, the last
\* one run succeeded or was the last of the list; and whatever the outcome the
\* terminate and launch commands follow.
IsDepsCmd(c) == c \in Range(DepsCmdNames)

ExpectedDeps(n) == SubSeq(DepsCmdNames, 1, IF n = 4 THEN 5 ELSE n)

C17_DependencyFallbackOrder ==
    prov.deps # <<>>
        => /\ SelectSeq(cmds, IsDepsCmd) = ExpectedDeps(Len(prov.deps))
           /\ \A i \in 1..(Len(prov.deps) - 1) : prov.deps[i] # 0
           /\ prov.deps[Len(prov.deps)] # 0 => Len(prov.deps) = 4
           /\ pc \notin {"kill_old", "launch"}
                 => \E i \in DOMAIN cmds :
                       /\ i > 1 /\ cmds[i] = "launch" /\ cmds[i - 1] = "pkill"
                       /\ IsDepsCmd(cmds[i - 2])

\* every strategy failed and the bridge was launched all the same
C17_Witness ==
    /\ prov.deps = <<1, 1, 1, 1>>
    /\ prov.launch = "ok"
    /\ Returned

\* C18: every launch command comes right after a terminate command, a terminate
\* command that finds no bridge is followed by the launch like any other, and
\* at most one bridge process runs in the environment.
C18_TerminateBeforeLaunch ==
    /\ \A i \in DOMAIN cmds : cmds[i] = "launch" => i > 1 /\ cmds[i - 1] = "pkill"
    /\ (prov.kill # "none" /\ pc # "launch") => "launch" \in Range(cmds)
    /\ pc = "launch" => inside.procs = 0
    /\ inside.procs <= 1

\* a later provisioning run replaced a running bridge
C18_Witness ==
    /\ prov.kill = "killed"
    /\ prov.launch = "ok"
    /\ inside.procs = 1
    /\ Returned

\* C19: a provisioning run that found the environment provisioned (bridge file
\* and dependency in place) issues no copy-in and no dependency-install command.
C19_ReentrantProvisioning ==
    prov.provisioned
        => Range(cmds) \cap ({"cp"} \cup Range(DepsCmdNames)) = {}

\* C20: handling a request gives the same commands and the same response as
\* handling the request that carries, under any single one of the keys command,
\* action, type, the first non-empty identifier of the original in that order,
\* the rest of the request being the same.
WithoutIds(msg) == [k \in DOMAIN msg.v \ Ids |-> msg.v[k]]

Rekeyed(msg, k) == D((k :> Identifier(msg)) @@ WithoutIds(msg))

C20_IdentifierKeySynonyms ==
    (last.conn # "none" /\ last.msg.t = "dict")
        => \A k \in Ids :
              LET other == handle_message(Rekeyed(last.msg, k), last.how, last.peerGone) IN
              /\ other.ran = last.ran
              /\ other.sent = last.sent
              /\ other.escaped = last.escaped

\* command is empty, action and type both name an action: action wins
C20_Witness ==
    /\ last.conn # "none"
    /\ last.msg = D(("command" :> S("")) @@ ("action" :> S("version")) @@ ("type" :> S("tap")))
    /\ ~last.peerGone
    /\ last.ran = <<>>
    /\ Len(last.sent) = 1
    /\ last.sent[1].success = TRUE
    /\ "version" \in DOMAIN last.sent[1]

\* the adb command the last request ran is `input <verb> ...`
RanInput(verbs) ==
    /\ last.conn # "none"
    /\ last.ran # <<>>
    /\ last.ran[1][5] = "input"
    /\ last.ran[1][6] \in verbs

\* a quote character that no backslash escapes: a backslash escapes the
\* character after it, whatever that is
RECURSIVE HasBareQuote(_)
HasBareQuote(str) ==
    IF Len(str) = 0 THEN FALSE
    ELSE IF SubSeq(str, 1, 1) = "\\" THEN HasBareQuote(SubSeq(str, 3, Len(str)))
    ELSE IF SubSeq(str, 1, 1) \in {"'", "\""} THEN TRUE
    ELSE HasBareQuote(SubSeq(str, 2, Len(str)))

\* C21: the argument of `input text` holds no space and no quote character but
\* escaped ones.
C21_TextArgumentEscaped ==
    RanInput({"text"})
        => /\ ~Contains(last.ran[1][7], " ")
           /\ ~HasBareQuote(last.ran[1][7])

\* C22: a get_screen_size request answered while the peer is there: when wm size
\* exits zero with "<label>: WIDTHxHEIGHT" the one response is
\* {success: true, size: {width: WIDTH, height: HEIGHT}}; when the command
\* cannot be run, exits nonzero, or prints nothing that holds a WIDTHxHEIGHT,
\* the one response has success false and an error string.  WIDTH and HEIGHT
\* are read as int() reads them: in the digits of any script, and a separator
\* character (0x1c-0x1f) is dropped at the end of the output and refused
\* inside it.
NoSizeOutputs ==
    {"", "Physical size: unknown", "error: max", "Physical size: 1080x",
     "Physical size: 10x20"}

C22_ScreenSizeParsed ==
    (last.conn # "none" /\ last.ran # <<>> /\ last.ran[1][5] = "wm" /\ ~last.peerGone)
        => /\ \A l \in SizeLabels, w \in {0, 1080}, h \in {7, 1920} :
                 (last.how.kind = "exit" /\ last.how.rc = 0 /\ last.how.out = SizeText(l, w, h))
                    => last.sent = <<[success |-> TRUE, size |-> [width |-> w, height |-> h]]>>
           /\ (last.how.kind = "exit" /\ last.how.rc = 0
                    /\ last.how.out \in {"Physical size: 10x20", "Physical size: ۱۰x২০"})
                 => last.sent = <<[success |-> TRUE, size |-> [width |-> 10, height |-> 20]]>>
           /\ (last.how.kind = "raise" \/ last.how.rc # 0 \/ last.how.out \in NoSizeOutputs)
                 => /\ Len(last.sent) = 1
                    /\ last.sent[1].success = FALSE
                    /\ "error" \in DOMAIN last.sent[1]

\* a label with an x in it
C22_Witness ==
    /\ last.conn # "none"
    /\ last.how = [kind |-> "exit", rc |-> 0, out |-> "max: 1080x7"]
    /\ ~last.peerGone
    /\ last.sent = <<[success |-> TRUE, size |-> [width |-> 1080, height |-> 7]]>>

\* C23: a request whose adb command printed an error marker is answered with
\* success false, whatever the exit status.
C23_ErrorMarkerDecidesSuccess ==
    (last.conn # "none" /\ last.ran # <<>> /\ ~last.peerGone
        /\ last.how.kind = "exit" /\ Contains(last.how.out, "Error"))
        => /\ Len(last.sent) = 1
           /\ last.sent[1].success = FALSE

\* C24: every parameter of an `input tap`, `input swipe` or `input keyevent`
\* command that was run is a string of decimal digits.
C24_NumericParametersValidated ==
    RanInput({"tap", "swipe", "keyevent"})
        => \A i \in 7..Len(last.ran[1]) : AllDigits(last.ran[1][i])

\* C30: a request that names a supported action runs an adb command.
SupportedActions ==
    {"home", "back", "recents", "open_notifications", "open_quick_settings", "open_app",
     "open_url", "is_app_installed", "kill_app", "clear_app_data", "tap", "swipe",
     "type_text", "key", "screenshot", "get_screen_size"}

C30_ActionsOnBothPaths ==
    (last.conn # "none" /\ last.msg.t = "dict" /\ Identifier(last.msg).t = "str"
        /\ Identifier(last.msg).v \in SupportedActions)
        => last.ran # <<>>

\* C25: a connection that closes, between requests or while its request is
\* being handled, takes only itself down.  At every moment: a request lost
\* with a closed connection is never answered, in hand or pending again, on
\* any connection; a closed connection has nothing in hand; no request is
\* answered twice; and an open connection is served whatever has become of
\* the others (its next request can be taken when the thread is free, its
\* command can return, its send can complete).  At every step: a connection
\* that closes changes nothing of any other connection, gets no answer at
\* that step and loses the request in hand and every request still waiting
\* on it; an answer is one response, to the request in hand on a connection
\* that is and stays open; what is lost stays lost.
C25_OtherConnectionsServed ==
    /\ [](\A c \in Conns :
             /\ \A d \in Conns :
                   serve.lost[c] \cap (Range(serve.answered[d]) \cup Range(serve.received[d])
                                         \cup {serve.running[d], serve.sending[d]}) = {}
             /\ conn[c] = "closed" => serve.running[c] = 0 /\ serve.sending[c] = 0
             /\ \A i, j \in DOMAIN serve.answered[c] :
                   i # j => serve.answered[c][i] # serve.answered[c][j]
             /\ conn[c] = "open" =>
                   /\ (/\ Len(serve.answered[c]) < Len(serve.received[c])
                       /\ serve.running[c] = 0 /\ serve.sending[c] = 0
                       /\ LoopFree(serve.running)) => ENABLED BeginRequest(c)
                   /\ serve.running[c] # 0 => ENABLED CallSend(c)
                   /\ serve.sending[c] # 0 => ENABLED EndRequest(c))
    /\ [][\A c \in Conns :
             /\ (conn[c] = "open" /\ conn'[c] = "closed") =>
                   /\ \A d \in Conns \ {c} :
                         /\ conn'[d] = conn[d]
                         /\ serve'.received[d] = serve.received[d]
                         /\ serve'.answered[d] = serve.answered[d]
                         /\ serve'.running[d] = serve.running[d]
                         /\ serve'.sending[d] = serve.sending[d]
                   /\ serve'.answered[c] = serve.answered[c]
                   /\ serve.sending[c] # 0 => serve.sending[c] \in serve'.lost[c]
                   /\ Unanswered(c) \subseteq serve'.lost[c]
             /\ serve'.answered[c] # serve.answered[c] =>
                   /\ conn[c] = "open" /\ conn'[c] = "open"
                   /\ serve.sending[c] # 0
                   /\ serve'.answered[c] = Append(serve.answered[c], serve.sending[c])
             /\ serve.lost[c] \subseteq serve'.lost[c]
      ]_vars

\* a connection closed with a request lost while another, open, connection
\* has had a later request answered
C25_Witness ==
    \E c \in Conns, d \in Conns :
        /\ c # d
        /\ conn[c] = "closed" /\ conn[d] = "open"
        /\ \E l \in serve.lost[c], i \in DOMAIN serve.answered[d] : serve.answered[d][i] > l

\* C26: no call of run_vm is ever stuck on an external command: a command that
\* does not complete is given up at its timeout, so the call goes on.
C26_NeverBlocks == pc # "blocked"

\* C27: a cancellation of the readiness wait ends the call at once: the call
\* issues no probe afterwards (it is over, with CancelledError raised to the
\* caller), and the cancellation issues no docker command and does not touch
\* the environment or what runs inside it.
C27_CancelStopsPolling ==
    [][ (waited'.cancelled /\ (~waited.cancelled \/ pc \in WaitPcs))
            => /\ pc \in WaitPcs
               /\ pc' = "idle"
               /\ result' = Raised("CancelledError")
               /\ cmds' = cmds
               /\ engine' = engine
               /\ inside' = inside
               /\ occupied' = occupied
      ]_vars

C27_Witness ==
    /\ waited.cancelled
    /\ pc = "idle"
    /\ result = Raised("CancelledError")
    /\ waited.emu = "seen"
    /\ engine.status = "running"

\* C29: whatever run_vm returns after a step raised is an error record: a
\* record with status "error" carries a name and the error, and a record
\* with another status is returned only by a call in which no step raised,
\* the copy-in of provisioning (docker cp with check=True) included.
C29_FailuresReturnedAsErrors ==
    Returned
        => /\ result.status = "error" => result.provider = "android" /\ Len(result.error) = 3
           /\ result.status # "error" => prov.script # "copy_failed"

\* C28: teardown raises nothing and runs on every way out of a session: a
\* session that is over lets out only what its try block did not handle, it
\* has run its teardown also after a stage threw, and when computer.stop()
\* raised it has issued docker stop <name> then docker rm <name>, whatever
\* their outcomes.
C28_TeardownOnEveryExitPath ==
    session.stage = "done"
        => /\ session.raised = Escapes(session.threw)
           /\ session.stop # "none"
           /\ session.stop = "raised"
                 => session.cmds = << <<"docker", "stop", EnvName(session.script)>>,
                                      <<"docker", "rm", EnvName(session.script)>> >>

\* C31: a request whose identifier is version runs no adb command whatever adb
\* would do at that moment, and, the peer being there, is answered by the one
\* response {success: true, version: "1.0.0", platform: "android"}, on any
\* connection and whatever else the request carries.
C31_VersionHandshake ==
    (last.conn # "none" /\ last.msg.t = "dict" /\ Identifier(last.msg) = S("version"))
        => /\ last.ran = <<>>
           /\ ~last.peerGone
                 => /\ last.sent = <<[success |-> TRUE, version |-> "1.0.0", platform |-> "android"]>>
                    /\ ~last.escaped

\* a version probe answered while adb fails
C31_Witness ==
    /\ last.conn = "c2"
    /\ last.msg = D("command" :> S("version"))
    /\ last.how = [kind |-> "exit", rc |-> 1, out |-> ""]
    /\ ~last.peerGone
    /\ last.sent = <<[success |-> TRUE, version |-> "1.0.0", platform |-> "android"]>>

\* C32 (as the claim states it): the server does not serialize the
\* connections: while the command of one connection is in flight, a request
\* waiting on another connection can start being handled.
C32_ConnectionsInParallel ==
    \A c, d \in Conns :
        (c # d /\ serve.running[c] # 0 /\ conn[d] = "open" /\ serve.running[d] = 0
            /\ Len(serve.answered[d]) < Len(serve.received[d]))
        => ENABLED BeginRequest(d)

\* C38: on each connection the requests answered are, in order, the first
\* requests received on it, at most one request of the connection is being
\* handled (its command runs or its response is being sent), and it is the
\* one received right after those answered: the i-th response belongs to the
\* i-th request.
C38_AnsweredInOrder ==
    \A c \in Conns :
        /\ Len(serve.answered[c]) <= Len(serve.received[c])
        /\ serve.answered[c] = SubSeq(serve.received[c], 1, Len(serve.answered[c]))
        /\ serve.running[c] = 0 \/ serve.sending[c] = 0
        /\ \A inHand \in {serve.running[c], serve.sending[c]} \ {0} :
              /\ Len(serve.answered[c]) < Len(serve.received[c])
              /\ inHand = serve.received[c][Len(serve.answered[c]) + 1]

\* two requests of one connection answered while a third one was waiting
C38_Witness ==
    \E c \in Conns :
        /\ Len(serve.received[c]) = 3
        /\ Len(serve.answered[c]) = 2
        /\ serve.sending[c] = serve.received[c][3]

\* C33: the budget of the wait runs from its entry through both phases.  A
\* step of the transport loop probes only while the elapsed time is below the
\* timeout, and once it is not, the wait returns not-ready at that step
\* without a probe; a wait whose timeout is not above the time the emulator
\* phase took has returned not-ready with no transport probe at all.
C33_BudgetCoversBothPhases ==
    [][ /\ pc = "wait_adb"
            => IF elapsed < timeout
               THEN waitResult' = "none" /\ pc' \in {"wait_adb", "stabilize"}
               ELSE waitResult' = "timed_out" /\ lastObs' = lastObs /\ pc' = "provision"
        /\ (pc = "wait_emulator" /\ pc' = "wait_adb" /\ timeout <= elapsed')
            => lastObs' = "none"
        /\ (waitResult' # "none" /\ lastObs' = "none") => waitResult' = "timed_out"
      ]_vars

\* a wait with a timeout of 10 whose emulator phase took 30: timed out with
\* no probe of the transport
C33_Witness ==
    /\ timeout = 10
    /\ waited.emu = "unseen"
    /\ waitResult = "timed_out"
    /\ lastObs = "none"
    /\ pc = "provision"

\* C34: the input command a request made the bridge run is, after the adb
\* prefix with its device selector, the argument list the direct method builds
\* from the same parameters: the same text for type-text, the same key for
\* send-key, the same top-level coordinates for tap, the same end points and
\* duration for swipe.
C34_SameArgumentLists ==
    (last.conn # "none" /\ last.ran # <<>>)
        => LET cmd == SubSeq(last.ran[1], 4, Len(last.ran[1]))
               data == last.msg
           IN  /\ RanInput({"text"}) => cmd = type_text(Get(data, "text", S("")).v)
               /\ RanInput({"keyevent"}) => cmd = key_event(Get(data, "key", S("")))
               /\ (RanInput({"tap"}) /\ {"x", "y"} \subseteq DOMAIN data.v
                        /\ DOMAIN data.v \cap {"params", "coordinate"} = {})
                     => cmd = tap(data.v["x"], data.v["y"])
               /\ (RanInput({"swipe"}) /\ "start_x" \in DOMAIN data.v)
                     => cmd = swipe(data.v["start_x"], data.v["start_y"], data.v["end_x"],
                                    data.v["end_y"], data.v["duration"])

\* C35: in the FastAPI variant every request received while the peer is there
\* gets exactly one response and leaves the connection's loop running.
C35_WsAlwaysAnswers ==
    (last.conn # "none" /\ ~last.peerGone)
        => /\ Len(last.sent) = 1
           /\ ~last.escaped

\* C36: a run_vm that returned an error record after its own docker run had
\* succeeded has not left the environment it created running.
C36_FailedStartLeavesNothing ==
    (Returned /\ result.status = "error" /\ path = "create" /\ exit.cmd = "run" /\ exit.rc = 0)
        => engine.status # "running"

\* C37: a setup run that leaves the ready flag set is one whose readiness wait
\* returned ready and whose toolchain probe succeeded: the setup that ends
\* after a timed-out wait or after a failed probe does not leave it set.
C37_ReadyFlagEarned ==
    [][ (pc = "finish" /\ pc' = "idle" /\ android_ready')
            => waitResult = "ready" /\ prov.probe = "ok" ]_vars

\* C39: the point a tap request taps is, for each coordinate, the value in
\* params when params gives one (0 included), else the top-level value, else
\* the entry of the coordinate pair, else 0.
Resolved(data, k, i) ==
    LET params == Get(data, "params", EmptyDict) IN
    IF params.t = "dict" /\ k \in DOMAIN params.v THEN params.v[k]
    ELSE IF k \in DOMAIN data.v THEN data.v[k]
    ELSE IF "coordinate" \in DOMAIN data.v THEN data.v["coordinate"].v[i]
    ELSE I(0)

C39_TapCoordinatePrecedence ==
    (RanInput({"tap"}) /\ last.msg.t = "dict")
        => SubSeq(last.ran[1], 4, Len(last.ran[1]))
              = tap(Resolved(last.msg, "x", 1), Resolved(last.msg, "y", 2))

====
